---- MODULE Spec2Model ----
(***************************************************************************)
(* A model of the ActiveJS core: the Unit (UnitBase and its typed          *)
(* flavors) and the AsyncSystem built from four member Units.              *)
(*                                                                         *)
(* JavaScript values are records [t, c, id]: t is the runtime type tag,    *)
(* c a small content code, id the object identity (0 for primitives).      *)
(* Numbers that index the cache are kept in HALVES (1 = 0.5, 2 = 1.0) so   *)
(* that the arithmetic of jump(steps) with a fractional `steps` is the     *)
(* arithmetic the code performs.                                           *)
(***************************************************************************)
EXTENDS Integers, Sequences, FiniteSets, TLC

(* ---------------------------------------------------------------------- *)
(* Bounds of the model                                                     *)
(* ---------------------------------------------------------------------- *)
\* a Unit takes no further call once it has emitted this many times
MaxEmit == 4
\* largest |steps| handed to jump, in halves (2 = 1.0)
MaxStepH == 2
\* no value is stored in a cache that already holds this many entries
MaxCacheLen == 4
\* an AsyncSystem takes no further call once it has emitted this many times
MaxSysEmit == 4
\* nor once its four members have emitted this many times between them
MaxMemberEmits == 9
\* the proposals made in one debounce window
MaxBurst == 3

(* ---------------------------------------------------------------------- *)
(* JavaScript values                                                       *)
(* ---------------------------------------------------------------------- *)
Undefined == [t |-> "undefined", c |-> 0, id |-> 0]
Null == [t |-> "null", c |-> 0, id |-> 0]
NaNValue == [t |-> "nan", c |-> 0, id |-> 0]
BoolV(b) == [t |-> "boolean", c |-> IF b THEN 1 ELSE 0, id |-> 0]
NumV(n) == [t |-> "number", c |-> n, id |-> 0]
StrV(n) == [t |-> "string", c |-> n, id |-> 0]
ListV(n, ref) == [t |-> "array", c |-> n, id |-> ref]
DictV(n, ref) == [t |-> "dict", c |-> n, id |-> ref]

Flavors == {"bool", "num", "string", "list", "dict", "generic"}

\* o != null && typeof o === 'object' (arrays and object literals here)
isObject(o) == o.t \in {"array", "dict"}

\* typeof n === 'number' && !isNaN(n)
isNumber(n) == n.t = "number"

\* Object.prototype.toString.call(o) === '[object Object]'
isDict(o) == o.t = "dict"

\* the === operator: NaN is not equal to itself, objects compare by identity
StrictEq(a, b) == a.t # "nan" /\ a = b

\* <Flavor>Unit.isValidValue (GenericUnit accepts everything)
isValidValue(flavor, v) ==
    CASE flavor = "bool" -> v.t = "boolean"
      [] flavor = "num" -> isNumber(v)
      [] flavor = "string" -> v.t = "string"
      [] flavor = "list" -> v.t = "array"
      [] flavor = "dict" -> isDict(v)
      [] OTHER -> TRUE

(* ---------------------------------------------------------------------- *)
(* Object identities: a new object gets the smallest identity that no      *)
(* value held by the Unit carries                                          *)
(* ---------------------------------------------------------------------- *)
RangeOf(f) == {f[k] : k \in DOMAIN f}

HeldValues(u) ==
    {u.value, u.initialValue, u.emittedValue, u.timeout.value}
        \cup RangeOf(u.cachedValues) \cup RangeOf(u.cacheProps)

HeldIds(u) == {v.id : v \in HeldValues(u)}

FreshId(u) == CHOOSE n \in 1..(Cardinality(HeldIds(u)) + 1) :
                  n \notin HeldIds(u) /\ \A m \in 1..(n - 1) : m \in HeldIds(u)

\* utils deepCopy: primitives as they are, arrays and dictionaries cloned
deepCopy(u, o) == IF isObject(o) THEN [o EXCEPT !.id = FreshId(u)] ELSE o

\* UnitBase.deepCopyMaybe
deepCopyMaybe(u, o) == IF u.config.immutable THEN deepCopy(u, o) ELSE o

\* <Flavor>Unit.defaultValue: [] and {} are new objects on every call
defaultValue(u) ==
    CASE u.flavor = "bool" -> BoolV(FALSE)
      [] u.flavor = "num" -> NumV(0)
      [] u.flavor = "string" -> StrV(0)
      [] u.flavor = "list" -> ListV(0, FreshId(u))
      [] u.flavor = "dict" -> DictV(0, FreshId(u))
      [] OTHER -> Undefined

\* UnitBase.applyFallbackValue
applyFallbackValue(u, v) == IF v = Undefined THEN defaultValue(u) ELSE v

\* UnitBase.rawValue
rawValue(u) == applyFallbackValue(u, u.value)

\* UnitBase.initialValueRaw
initialValueRaw(u) == applyFallbackValue(u, u.initialValue)

\* UnitBase.isEmpty, overridden by ListUnit and DictUnit (length === 0)
isEmpty(u) ==
    IF u.flavor \in {"list", "dict"}
    THEN rawValue(u).c = 0
    ELSE StrictEq(rawValue(u), defaultValue(u))

\* UnitBase.value; NumUnit and StringUnit return rawValue (primitives)
valueOf(u) == deepCopyMaybe(u, rawValue(u))

(* ---------------------------------------------------------------------- *)
(* The cache: a JavaScript array (cachedValues) that may also carry        *)
(* non-index properties (cacheProps, keyed by a fractional index in        *)
(* halves). cacheIndex is kept in halves.                                  *)
(* ---------------------------------------------------------------------- *)
Max(a, b) == IF a > b THEN a ELSE b
Min(a, b) == IF a < b THEN a ELSE b

\* ToIntegerOrInfinity of h/2: truncation toward zero
TruncHalves(h) == IF h >= 0 THEN h \div 2 ELSE -((-h) \div 2)

IsWhole(h) == h % 2 = 0

\* UnitBase.cachedValuesCount
cachedValuesCount(u) == Len(u.cachedValues)

\* the read this._cachedValues[index]: undefined where nothing is stored
ArrayGet(u, h) ==
    IF IsWhole(h)
    THEN IF h >= 0 /\ h \div 2 < Len(u.cachedValues)
         THEN u.cachedValues[(h \div 2) + 1]
         ELSE Undefined
    ELSE IF h \in DOMAIN u.cacheProps THEN u.cacheProps[h] ELSE Undefined

\* the write this._cachedValues[index] = value
ArraySet(u, h, value) ==
    IF IsWhole(h)
    THEN [u EXCEPT !.cachedValues =
            [k \in 1..Max(Len(u.cachedValues), (h \div 2) + 1) |->
                IF k = (h \div 2) + 1 THEN value
                ELSE IF k <= Len(u.cachedValues) THEN u.cachedValues[k]
                ELSE Undefined]]
    ELSE [u EXCEPT !.cacheProps =
            [k \in (DOMAIN u.cacheProps) \cup {h} |->
                IF k = h THEN value ELSE u.cacheProps[k]]]

\* Array.prototype.splice(start, deleteCount, ...items), its arguments in halves
Splice(s, startH, deleteH, items) ==
    LET start == Min(Len(s), Max(0, TruncHalves(startH)))
        del == Min(Len(s) - start, Max(0, TruncHalves(deleteH)))
    IN SubSeq(s, 1, start) \o items \o SubSeq(s, start + del + 1, Len(s))

\* emit that remembers the value and does not count the emission
emitUncounted(u, value) == [u EXCEPT !.emittedValue = value]

\* Base.emit: one more emission, remembered as emittedValue
emit(u, value) == [u EXCEPT !.emitCount = @ + 1, !.emittedValue = value]

\* updateCache with the index left where it was when the forward entries are dropped
updateCacheKeepsIndex(u, value, cacheReplace) ==
    LET count == cachedValuesCount(u) IN
    IF cacheReplace
    THEN ArraySet(u, u.cacheIndex, value)
    ELSE IF count = 0 \/ u.cacheIndex = 2 * (count - 1)
    THEN LET pushed == Append(u.cachedValues, value)
             kept == IF Len(pushed) > u.cacheSize THEN Tail(pushed) ELSE pushed
         IN [u EXCEPT !.cachedValues = kept, !.cacheIndex = 2 * (Len(kept) - 1)]
    ELSE [u EXCEPT
            !.cachedValues = Splice(u.cachedValues, u.cacheIndex + 2,
                                    2 * (count - 1) - u.cacheIndex, <<value>>)]

\* updateCache with cacheReplace ignored: the value is always added
updateCacheAlwaysAdds(u, value, cacheReplace) ==
    LET count == cachedValuesCount(u) IN
    IF count = 0 \/ u.cacheIndex = 2 * (count - 1)
    THEN LET pushed == Append(u.cachedValues, value)
             kept == IF Len(pushed) > u.cacheSize THEN Tail(pushed) ELSE pushed
         IN [u EXCEPT !.cachedValues = kept, !.cacheIndex = 2 * (Len(kept) - 1)]
    ELSE [u EXCEPT
            !.cachedValues = Splice(u.cachedValues, u.cacheIndex + 2,
                                    2 * (count - 1) - u.cacheIndex, <<value>>),
            !.cacheIndex = @ + 2]

\* UnitBase.updateCache
updateCache(u, value, cacheReplace) ==
    LET count == cachedValuesCount(u) IN
    IF cacheReplace
    THEN ArraySet(u, u.cacheIndex, value)
    ELSE IF count = 0 \/ u.cacheIndex = 2 * (count - 1)
    THEN LET pushed == Append(u.cachedValues, value)
             kept == IF Len(pushed) > u.cacheSize THEN Tail(pushed) ELSE pushed
         IN [u EXCEPT !.cachedValues = kept, !.cacheIndex = 2 * (Len(kept) - 1)]
    ELSE [u EXCEPT
            !.cachedValues = Splice(u.cachedValues, u.cacheIndex + 2,
                                    2 * (count - 1) - u.cacheIndex, <<value>>),
            !.cacheIndex = @ + 2]

\* updateValueAndCache that emits whether or not the Unit is muted
updateValueAndCacheIgnoresMute(u, value, cacheReplace, skipCache) ==
    LET cached == IF skipCache THEN u ELSE updateCache(u, value, cacheReplace)
        stored == [cached EXCEPT !.value = value]
    IN emit([stored EXCEPT !.emitOnUnmute = FALSE], valueOf(stored))

\* UnitBase.updateValueAndCache
updateValueAndCache(u, value, cacheReplace, skipCache) ==
    LET cached == IF skipCache THEN u ELSE updateCache(u, value, cacheReplace)
        stored == [cached EXCEPT !.value = value]
    IN IF stored.isMuted
       THEN [stored EXCEPT !.emitOnUnmute = TRUE]
       ELSE emit([stored EXCEPT !.emitOnUnmute = FALSE], valueOf(stored))

(* ---------------------------------------------------------------------- *)
(* Admission                                                               *)
(* ---------------------------------------------------------------------- *)
\* the customDispatchCheck functions a Unit is configured with in this model
customDispatchCheck(name, current, next) == next.c # 1

\* distinctCheck that lets every value through
distinctCheckOff(u, value) == TRUE

\* UnitBase.distinctCheck
distinctCheck(u, value) ==
    ~u.config.distinctDispatchCheck \/ ~StrictEq(value, rawValue(u))

\* wouldDispatch with force looked at before isFrozen
baseWouldDispatchForceFirst(u, value, force) ==
    IF force THEN TRUE
    ELSE IF u.isFrozen THEN FALSE
    ELSE IF u.config.customDispatchCheck # "none"
            /\ ~customDispatchCheck(u.config.customDispatchCheck, rawValue(u), value)
    THEN FALSE
    ELSE distinctCheck(u, value)

\* UnitBase.wouldDispatch
baseWouldDispatch(u, value, force) ==
    IF u.isFrozen THEN FALSE
    ELSE IF force THEN TRUE
    ELSE IF u.config.customDispatchCheck # "none"
            /\ ~customDispatchCheck(u.config.customDispatchCheck, rawValue(u), value)
    THEN FALSE
    ELSE distinctCheck(u, value)

\* wouldDispatch of a typed Unit with the type check under force's control
wouldDispatchForceSkipsType(u, value, force) ==
    (force \/ isValidValue(u.flavor, value)) /\ baseWouldDispatch(u, value, force)

\* <Flavor>Unit.wouldDispatch: the type check first, then UnitBase.wouldDispatch
wouldDispatch(u, value, force) ==
    isValidValue(u.flavor, value) /\ baseWouldDispatch(u, value, force)

\* UnitBase.dispatchActual
dispatchActual(u, value, options) ==
    IF wouldDispatch(u, value, options.force)
    THEN [u |-> updateValueAndCache(u, deepCopyMaybe(u, value),
                                    options.cacheReplace, FALSE),
          ret |-> "true"]
    ELSE [u |-> u, ret |-> "false"]

\* the failReason that dispatchActual computes for a value it has refused
failReason(u, value) ==
    IF u.isFrozen THEN "FROZEN_UNIT"
    ELSE IF isValidValue(u.flavor, value)
    THEN IF distinctCheck(u, value) THEN "CUSTOM_DISPATCH_CHECK" ELSE "DISTINCT_CHECK"
    ELSE "INVALID_VALUE"

\* the reason in the EventUnitDispatchFail that dispatchActual sends to events$, which
\* has a subscriber; "none" if the value is accepted or the Unit is muted
dispatchFailEvent(u, value, options) ==
    IF wouldDispatch(u, value, options.force) \/ u.isMuted
    THEN "none"
    ELSE failReason(u, value)

(* ---------------------------------------------------------------------- *)
(* Debounce (utils debounce wrapped around dispatchMiddleware)             *)
(* ---------------------------------------------------------------------- *)
NoTimeout == [set |-> FALSE, value |-> Undefined, force |-> FALSE, cacheReplace |-> FALSE]

\* callMode of debounce: anything but START, END, BOTH means END
callMode(u) ==
    IF u.config.dispatchDebounceMode \in {"START", "END", "BOTH"}
    THEN u.config.dispatchDebounceMode ELSE "END"

\* the function debounce returns, leaving a running timer and its arguments alone
debouncedKeepsFirst(u, value, options) ==
    LET callNow == callMode(u) # "END" /\ ~u.timeout.set
        armed == IF u.timeout.set THEN u
                 ELSE [u EXCEPT !.timeout = [set |-> TRUE, value |-> value,
                                             force |-> options.force,
                                             cacheReplace |-> options.cacheReplace]]
    IN IF callNow
       THEN dispatchActual(armed, value, options)
       ELSE [u |-> armed, ret |-> "undefined"]

\* the function debounce returns, calling through whether or not a timer is running
debouncedIgnoresWindow(u, value, options) ==
    LET armed == [u EXCEPT !.timeout = [set |-> TRUE, value |-> value,
                                        force |-> options.force,
                                        cacheReplace |-> options.cacheReplace]]
    IN IF callMode(u) # "END"
       THEN dispatchActual(armed, value, options)
       ELSE [u |-> armed, ret |-> "undefined"]

\* the function debounce returns, called with (value, options)
debounced(u, value, options) ==
    LET callNow == callMode(u) # "END" /\ ~u.timeout.set
        armed == [u EXCEPT !.timeout = [set |-> TRUE, value |-> value,
                                        force |-> options.force,
                                        cacheReplace |-> options.cacheReplace]]
    IN IF callNow
       THEN dispatchActual(armed, value, options)
       ELSE [u |-> armed, ret |-> "undefined"]

\* the timer callback `later` of debounce
later(u) ==
    LET cleared == [u EXCEPT !.timeout = NoTimeout]
        options == [bypassDebounce |-> FALSE, force |-> u.timeout.force,
                    cacheReplace |-> u.timeout.cacheReplace]
    IN IF callMode(u) # "START"
       THEN dispatchActual(cleared, u.timeout.value, options)
       ELSE [u |-> cleared, ret |-> "undefined"]

\* UnitBase.dispatch
dispatch(u, value, options) ==
    IF options.bypassDebounce \/ ~u.config.dispatchDebounce
    THEN dispatchActual(u, value, options)
    ELSE debounced(u, value, options)

(* ---------------------------------------------------------------------- *)
(* Cache navigation. `steps` is [num, h]: num says whether the argument    *)
(* passes isNumber, h is its value in halves.                              *)
(* ---------------------------------------------------------------------- *)
Steps(h) == [num |-> TRUE, h |-> h]
NotANumber == [num |-> FALSE, h |-> 0]

\* UnitBase.jump
jump(u, steps) ==
    IF u.isFrozen \/ ~steps.num
    THEN [u |-> u, ret |-> "false"]
    ELSE LET newIndex == u.cacheIndex + steps.h IN
         IF newIndex < 0 \/ newIndex = u.cacheIndex
               \/ newIndex > 2 * (cachedValuesCount(u) - 1)
         THEN [u |-> u, ret |-> "false"]
         ELSE LET moved == [u EXCEPT !.cacheIndex = newIndex]
              IN [u |-> updateValueAndCache(moved, ArrayGet(moved, newIndex),
                                            FALSE, TRUE),
                  ret |-> "true"]

\* UnitBase.goBack
goBack(u) == jump(u, Steps(-2))

\* UnitBase.goForward
goForward(u) == jump(u, Steps(2))

\* UnitBase.jumpToStart
jumpToStart(u) == jump(u, Steps(-u.cacheIndex))

\* UnitBase.jumpToEnd
jumpToEnd(u) == jump(u, Steps(2 * (cachedValuesCount(u) - 1) - u.cacheIndex))

(* ---------------------------------------------------------------------- *)
(* Clearing, resetting, freezing, muting, replaying                        *)
(* ---------------------------------------------------------------------- *)
NoOptions == [leaveFirst |-> FALSE, leaveLast |-> FALSE]
LeaveLast == [leaveFirst |-> FALSE, leaveLast |-> TRUE]

\* clearCache that leaves cacheIndex where it was
clearCacheLeavesIndex(u, options) ==
    LET count == cachedValuesCount(u)
        start == IF options.leaveFirst THEN 1 ELSE 0
        deleteCount == count - start - (IF options.leaveLast THEN 1 ELSE 0)
    IN IF u.isFrozen \/ count = 0 \/ deleteCount <= 0
       THEN [u |-> u, ret |-> "false"]
       ELSE [u |-> [u EXCEPT !.cachedValues =
                        Splice(u.cachedValues, 2 * start, 2 * deleteCount, <<>>)],
             ret |-> "true"]

\* UnitBase.clearCache
clearCache(u, options) ==
    LET count == cachedValuesCount(u)
        leaveFirst == options.leaveFirst
        leaveLast == options.leaveLast
    IN IF u.isFrozen \/ count = 0
          \/ (count = 1 /\ (leaveFirst \/ leaveLast))
          \/ (count = 2 /\ leaveFirst /\ leaveLast)
       THEN [u |-> u, ret |-> "false"]
       ELSE LET start == IF leaveFirst THEN 1 ELSE 0
                deleteCount == count - start - (IF leaveLast THEN 1 ELSE 0)
                rest == Splice(u.cachedValues, 2 * start, 2 * deleteCount, <<>>)
            IN [u |-> [u EXCEPT !.cachedValues = rest,
                                !.cacheIndex = 2 * Max(0, Len(rest) - 1)],
                ret |-> "true"]

\* UnitBase.clearValue
clearValue(u) ==
    IF u.isFrozen \/ u.emitCount = 0 \/ isEmpty(u)
    THEN [u |-> u, ret |-> "false"]
    ELSE [u |-> updateValueAndCache(u, defaultValue(u), FALSE, FALSE), ret |-> "true"]

\* UnitBase.resetValue
resetValue(u) ==
    IF u.isFrozen \/ StrictEq(rawValue(u), initialValueRaw(u))
    THEN [u |-> u, ret |-> "false"]
    ELSE [u |-> updateValueAndCache(u, initialValueRaw(u), FALSE, FALSE), ret |-> "true"]

\* UnitBase.freeze
freeze(u) == [u EXCEPT !.isFrozen = TRUE]

\* UnitBase.unfreeze
unfreeze(u) == [u EXCEPT !.isFrozen = FALSE]

\* UnitBase.clear
clear(u, options) == clearCache(clearValue(unfreeze(u)).u, options).u

\* reset that does not unfreeze first
resetSkipsUnfreeze(u, options) == clearCache(resetValue(u).u, options).u

\* UnitBase.reset
reset(u, options) == clearCache(resetValue(unfreeze(u)).u, options).u

\* UnitBase.mute
mute(u) == [u EXCEPT !.isMuted = TRUE]

\* unmute that emits whether or not a value was stored while the Unit was muted
unmuteAlwaysEmits(u) ==
    IF ~u.isMuted THEN u
    ELSE [emit([u EXCEPT !.isMuted = FALSE], valueOf(u)) EXCEPT !.emitOnUnmute = FALSE]

\* UnitBase.unmute
unmute(u) ==
    IF ~u.isMuted THEN u
    ELSE LET open == [u EXCEPT !.isMuted = FALSE]
         IN IF open.emitOnUnmute
            THEN [emit(open, valueOf(open)) EXCEPT !.emitOnUnmute = FALSE]
            ELSE open

\* UnitBase.replay over Base.replay
replay(u) ==
    IF u.isFrozen \/ u.isMuted
    THEN [u |-> u, ret |-> "false"]
    ELSE [u |-> emit(u, u.emittedValue), ret |-> "true"]

(* ---------------------------------------------------------------------- *)
(* Construction                                                            *)
(* ---------------------------------------------------------------------- *)
\* UnitBase.shouldDispatchInitialValue
shouldDispatchInitialValue(u, initialValue) ==
    initialValue # Undefined /\ isValidValue(u.flavor, initialValue)

\* UnitBase.dispatchInitialValue
dispatchInitialValue(u, initialValue) ==
    IF shouldDispatchInitialValue(u, initialValue)
    THEN LET kept == [u EXCEPT !.initialValue = initialValue]
         IN updateValueAndCache(kept, initialValueRaw(kept), FALSE, FALSE)
    ELSE updateValueAndCache(u, defaultValue(u), FALSE, FALSE)

\* this.cacheSize = isNumber(cacheSize) ? Math.max(1, cacheSize) : 2
cacheSizeOf(cacheSize) == IF isNumber(cacheSize) THEN Max(1, cacheSize.c) ELSE 2

\* the fields of a Unit before the constructor body runs
BlankUnit(flavor, config) ==
    [flavor |-> flavor, config |-> config,
     cacheSize |-> cacheSizeOf(config.cacheSize),
     isFrozen |-> FALSE, isMuted |-> FALSE, emitOnUnmute |-> FALSE,
     cachedValues |-> <<>>, cacheProps |-> <<>>, cacheIndex |-> 0,
     initialValue |-> Undefined, value |-> Undefined,
     emitCount |-> 0, emittedValue |-> Undefined,
     timeout |-> NoTimeout]

\* UnitBase.constructor (a Unit that is not persistent)
NewUnit(flavor, config) ==
    LET blank == BlankUnit(flavor, config)
    IN dispatchInitialValue(blank, deepCopyMaybe(blank, config.initialValue))

\* UnitConfig as the global configuration leaves it (Configuration.UNITS is empty)
DefaultConfig ==
    [cacheSize |-> Undefined, immutable |-> FALSE,
     distinctDispatchCheck |-> FALSE, customDispatchCheck |-> "none",
     dispatchDebounce |-> FALSE, dispatchDebounceMode |-> "none",
     initialValue |-> Undefined]

(* ---------------------------------------------------------------------- *)
(* AsyncSystem: four member Units and the relationships among them. The    *)
(* members' future$ subscribers run inside the member call that emits.     *)
(* Two history fields record what the flag relationshipsAutoPaused was     *)
(* when a member last emitted (autoPausedAtMemberEmit) and when the system *)
(* last emitted (autoPausedAtEmit); rulesRun counts the rule sets run      *)
(* during the call that is being made on a member or on the system;        *)
(* emittedWhilePaused tells whether a member has emitted since the manual  *)
(* pause in force began.                                                   *)
(* ---------------------------------------------------------------------- *)
Roles == {"queryUnit", "dataUnit", "errorUnit", "pendingUnit"}

\* AsyncSystemBase.relationshipsWorking
relationshipsWorking(s) == ~s.relationshipsAutoPaused /\ ~s.relationshipsManuallyPaused

\* AsyncSystemBase.unitsEmitCounts
unitsEmitCounts(s) ==
    <<s.queryUnit.emitCount, s.dataUnit.emitCount,
      s.errorUnit.emitCount, s.pendingUnit.emitCount>>

\* AsyncSystemBase.combinedEmittedValues
combinedEmittedValues(s) ==
    [query |-> s.queryUnit.emittedValue, data |-> s.dataUnit.emittedValue,
     error |-> s.errorUnit.emittedValue, pending |-> s.pendingUnit.emittedValue]

\* AsyncSystemBase.value
systemValue(s) ==
    [query |-> valueOf(s.queryUnit), data |-> valueOf(s.dataUnit),
     error |-> valueOf(s.errorUnit), pending |-> valueOf(s.pendingUnit)]

\* AsyncSystemBase.emit over Base.emit
systemEmit(s) ==
    [s EXCEPT !.emitCount = @ + 1,
              !.emittedValue = combinedEmittedValues(s),
              !.autoPausedAtEmit = s.relationshipsAutoPaused]

\* toggleQueryUnitFreezeMaybe that freezes and never unfreezes
toggleQueryUnitFreezeMaybeOnlyFreezes(s, isPending) ==
    IF s.config.freezeQueryWhilePending /\ isPending
    THEN [s EXCEPT !.queryUnit = freeze(@)]
    ELSE s

\* AsyncSystemBase.toggleQueryUnitFreezeMaybe
toggleQueryUnitFreezeMaybe(s, isPending) ==
    IF s.config.freezeQueryWhilePending
    THEN IF isPending
         THEN [s EXCEPT !.queryUnit = freeze(@)]
         ELSE [s EXCEPT !.queryUnit = unfreeze(@)]
    ELSE s

\* a call on the member `role` has returned the Unit u; if it emitted, the
\* subscriber that the system holds on the member's future$ has run
RECURSIVE memberChanged(_, _, _)

\* autoUpdatePendingValue that only ever raises the pending flag
autoUpdatePendingValueOnlyRaises(s, isPending) ==
    IF s.config.autoUpdatePendingValue /\ isPending
    THEN memberChanged(s, "pendingUnit",
             dispatch(s.pendingUnit, BoolV(TRUE),
                      [bypassDebounce |-> TRUE, force |-> FALSE, cacheReplace |-> FALSE]).u)
    ELSE s

\* AsyncSystemBase.autoUpdatePendingValue
autoUpdatePendingValue(s, isPending) ==
    IF s.config.autoUpdatePendingValue
    THEN memberChanged(s, "pendingUnit",
             dispatch(s.pendingUnit, BoolV(isPending),
                      [bypassDebounce |-> TRUE, force |-> FALSE, cacheReplace |-> FALSE]).u)
    ELSE s

\* AsyncSystemBase.executeQueryUnitRelationship
executeQueryUnitRelationship(s) ==
    LET paused == [s EXCEPT !.relationshipsAutoPaused = TRUE, !.rulesRun = @ + 1]
        pending == autoUpdatePendingValue(paused, TRUE)
        data == IF s.config.clearDataOnQuery
                THEN memberChanged(pending, "dataUnit", clearValue(pending.dataUnit).u)
                ELSE pending
        error == IF s.config.clearErrorOnQuery
                 THEN memberChanged(data, "errorUnit", clearValue(data.errorUnit).u)
                 ELSE data
    IN systemEmit([error EXCEPT !.relationshipsAutoPaused = FALSE])

\* executeDataUnitRelationship without relationshipsAutoPaused set while it runs
executeDataUnitRelationshipUnguarded(s) ==
    LET counted == [s EXCEPT !.rulesRun = @ + 1]
        pending == autoUpdatePendingValue(counted, FALSE)
        error == IF ~s.config.clearErrorOnQuery /\ s.config.clearErrorOnData
                 THEN memberChanged(pending, "errorUnit", clearValue(pending.errorUnit).u)
                 ELSE pending
        query == IF s.config.clearQueryOnData
                 THEN memberChanged(error, "queryUnit", clearValue(error.queryUnit).u)
                 ELSE error
    IN systemEmit([query EXCEPT !.relationshipsAutoPaused = FALSE])

\* executeDataUnitRelationship with the flag cleared after the emission
executeDataUnitRelationshipEmitsPaused(s) ==
    LET paused == [s EXCEPT !.relationshipsAutoPaused = TRUE, !.rulesRun = @ + 1]
        pending == autoUpdatePendingValue(paused, FALSE)
        error == IF ~s.config.clearErrorOnQuery /\ s.config.clearErrorOnData
                 THEN memberChanged(pending, "errorUnit", clearValue(pending.errorUnit).u)
                 ELSE pending
        query == IF s.config.clearQueryOnData
                 THEN memberChanged(error, "queryUnit", clearValue(error.queryUnit).u)
                 ELSE error
    IN [systemEmit(query) EXCEPT !.relationshipsAutoPaused = FALSE]

\* executeDataUnitRelationship that clears error whatever clearErrorOnQuery is
executeDataUnitRelationshipClearsError(s) ==
    LET paused == [s EXCEPT !.relationshipsAutoPaused = TRUE, !.rulesRun = @ + 1]
        pending == autoUpdatePendingValue(paused, FALSE)
        error == IF s.config.clearErrorOnData
                 THEN memberChanged(pending, "errorUnit", clearValue(pending.errorUnit).u)
                 ELSE pending
        query == IF s.config.clearQueryOnData
                 THEN memberChanged(error, "queryUnit", clearValue(error.queryUnit).u)
                 ELSE error
    IN systemEmit([query EXCEPT !.relationshipsAutoPaused = FALSE])

\* executeDataUnitRelationship that clears query before it updates pending
executeDataUnitRelationshipClearsQueryFirst(s) ==
    LET paused == [s EXCEPT !.relationshipsAutoPaused = TRUE, !.rulesRun = @ + 1]
        query == IF paused.config.clearQueryOnData
                 THEN memberChanged(paused, "queryUnit", clearValue(paused.queryUnit).u)
                 ELSE paused
        pending == autoUpdatePendingValue(query, FALSE)
        error == IF ~s.config.clearErrorOnQuery /\ s.config.clearErrorOnData
                 THEN memberChanged(pending, "errorUnit", clearValue(pending.errorUnit).u)
                 ELSE pending
    IN systemEmit([error EXCEPT !.relationshipsAutoPaused = FALSE])

\* AsyncSystemBase.executeDataUnitRelationship
executeDataUnitRelationship(s) ==
    LET paused == [s EXCEPT !.relationshipsAutoPaused = TRUE, !.rulesRun = @ + 1]
        pending == autoUpdatePendingValue(paused, FALSE)
        error == IF ~s.config.clearErrorOnQuery /\ s.config.clearErrorOnData
                 THEN memberChanged(pending, "errorUnit", clearValue(pending.errorUnit).u)
                 ELSE pending
        query == IF s.config.clearQueryOnData
                 THEN memberChanged(error, "queryUnit", clearValue(error.queryUnit).u)
                 ELSE error
    IN systemEmit([query EXCEPT !.relationshipsAutoPaused = FALSE])

\* executeErrorUnitRelationship with the emission made before the writes to the siblings
executeErrorUnitRelationshipEmitsFirst(s) ==
    LET paused == systemEmit([s EXCEPT !.rulesRun = @ + 1])
        guarded == [paused EXCEPT !.relationshipsAutoPaused = TRUE]
        pending == autoUpdatePendingValue(guarded, FALSE)
        data == IF ~s.config.clearDataOnQuery /\ s.config.clearDataOnError
                THEN memberChanged(pending, "dataUnit", clearValue(pending.dataUnit).u)
                ELSE pending
        query == IF s.config.clearQueryOnError
                 THEN memberChanged(data, "queryUnit", clearValue(data.queryUnit).u)
                 ELSE data
    IN [query EXCEPT !.relationshipsAutoPaused = FALSE]

\* AsyncSystemBase.executeErrorUnitRelationship
executeErrorUnitRelationship(s) ==
    LET paused == [s EXCEPT !.relationshipsAutoPaused = TRUE, !.rulesRun = @ + 1]
        pending == autoUpdatePendingValue(paused, FALSE)
        data == IF ~s.config.clearDataOnQuery /\ s.config.clearDataOnError
                THEN memberChanged(pending, "dataUnit", clearValue(pending.dataUnit).u)
                ELSE pending
        query == IF s.config.clearQueryOnError
                 THEN memberChanged(data, "queryUnit", clearValue(data.queryUnit).u)
                 ELSE data
    IN systemEmit([query EXCEPT !.relationshipsAutoPaused = FALSE])

\* the subscriber on queryUnit.future$
onQueryUnitEmit(s) ==
    IF relationshipsWorking(s) THEN executeQueryUnitRelationship(s) ELSE s

\* the subscriber on dataUnit.future$ that overlooks the manual pause
onDataUnitEmitWhilePaused(s) ==
    IF ~s.relationshipsAutoPaused THEN executeDataUnitRelationship(s) ELSE s

\* the subscriber on dataUnit.future$
onDataUnitEmit(s) ==
    IF relationshipsWorking(s) THEN executeDataUnitRelationship(s) ELSE s

\* the subscriber on errorUnit.future$
onErrorUnitEmit(s) ==
    IF relationshipsWorking(s) THEN executeErrorUnitRelationship(s) ELSE s

\* the subscriber on pendingUnit.future$ with the emission made whatever the flags say
onPendingUnitEmitAlways(s) ==
    LET isPending == s.pendingUnit.emittedValue = BoolV(TRUE)
        toggled == IF ~s.relationshipsManuallyPaused
                   THEN toggleQueryUnitFreezeMaybe(s, isPending)
                   ELSE s
    IN systemEmit(toggled)

\* the subscriber on pendingUnit.future$
onPendingUnitEmit(s) ==
    LET isPending == s.pendingUnit.emittedValue = BoolV(TRUE)
        toggled == IF ~s.relationshipsManuallyPaused
                   THEN toggleQueryUnitFreezeMaybe(s, isPending)
                   ELSE s
    IN IF relationshipsWorking(toggled) THEN systemEmit(toggled) ELSE toggled

memberChanged(s, role, u) ==
    LET changed == [s EXCEPT ![role] = u] IN
    IF u.emitCount > s[role].emitCount
    THEN LET seen == [changed EXCEPT
                         !.autoPausedAtMemberEmit = s.relationshipsAutoPaused,
                         !.emittedWhilePaused = @ \/ s.relationshipsManuallyPaused]
         IN CASE role = "queryUnit" -> onQueryUnitEmit(seen)
              [] role = "dataUnit" -> onDataUnitEmit(seen)
              [] role = "errorUnit" -> onErrorUnitEmit(seen)
              [] OTHER -> onPendingUnitEmit(seen)
    ELSE changed

\* pauseRelationships that takes the snapshot again when already paused
pauseRelationshipsRetakes(s) ==
    [s EXCEPT !.relationshipsManuallyPaused = TRUE,
              !.unitsEmitCountsBeforePausing = unitsEmitCounts(s),
              !.emittedWhilePaused = IF s.relationshipsManuallyPaused THEN @ ELSE FALSE]

\* AsyncSystemBase.pauseRelationships
pauseRelationships(s) ==
    IF s.relationshipsManuallyPaused THEN s
    ELSE [s EXCEPT !.relationshipsManuallyPaused = TRUE,
                   !.unitsEmitCountsBeforePausing = unitsEmitCounts(s),
                   !.emittedWhilePaused = FALSE]

\* AsyncSystemBase.resumeRelationships
resumeRelationships(s) ==
    IF ~s.relationshipsManuallyPaused THEN s
    ELSE LET resumed == [s EXCEPT !.relationshipsManuallyPaused = FALSE,
                                  !.emittedWhilePaused = FALSE]
         IN IF resumed.unitsEmitCountsBeforePausing # unitsEmitCounts(resumed)
            THEN systemEmit(resumed)
            ELSE resumed

\* AsyncSystemConfig as the global configuration leaves it: an option that is
\* left out counts as set where the code tests `!== false`, as unset where it
\* tests `=== true`
DefaultSystemConfig ==
    [clearErrorOnData |-> TRUE, clearErrorOnQuery |-> FALSE,
     clearDataOnQuery |-> FALSE, clearDataOnError |-> FALSE,
     clearQueryOnData |-> FALSE, clearQueryOnError |-> FALSE,
     autoUpdatePendingValue |-> TRUE, freezeQueryWhilePending |-> FALSE]

NoSystemValue == [query |-> Undefined, data |-> Undefined, error |-> Undefined, pending |-> Undefined]

\* AsyncSystem.constructor over AsyncSystemBase.constructor
NewAsyncSystem(config, initialValue) ==
    systemEmit(
        [config |-> config,
         queryUnit |-> NewUnit("generic", [DefaultConfig EXCEPT !.initialValue = initialValue.query]),
         dataUnit |-> NewUnit("generic", [DefaultConfig EXCEPT !.initialValue = initialValue.data]),
         errorUnit |-> NewUnit("generic", [DefaultConfig EXCEPT !.initialValue = initialValue.error]),
         pendingUnit |-> NewUnit("bool", [DefaultConfig EXCEPT !.initialValue = initialValue.pending]),
         relationshipsAutoPaused |-> FALSE,
         relationshipsManuallyPaused |-> FALSE,
         unitsEmitCountsBeforePausing |-> <<>>,
         emitCount |-> 0,
         emittedValue |-> NoSystemValue,
         autoPausedAtEmit |-> FALSE,
         autoPausedAtMemberEmit |-> FALSE,
         rulesRun |-> 0,
         emittedWhilePaused |-> FALSE])

(* ---------------------------------------------------------------------- *)
(* Specification Spec: one Unit and the calls made on it                   *)
(* ---------------------------------------------------------------------- *)
VARIABLES
    unit,   \* the Unit
    sys,    \* the AsyncSystem
    last    \* the last call made: its name, its arguments, what it returned

vars == <<unit, sys, last>>

\* values of each type handed to the model's Units
ValidInputs(flavor) ==
    CASE flavor = "bool" -> {BoolV(FALSE), BoolV(TRUE)}
      [] flavor = "num" -> {NumV(0), NumV(1)}
      [] flavor = "string" -> {StrV(0), StrV(1)}
      [] flavor = "list" -> {ListV(0, 0), ListV(1, 0)}
      [] flavor = "dict" -> {DictV(0, 0), DictV(1, 0)}
      [] OTHER -> {Undefined, Null, NumV(1)}

InvalidInputs(flavor) ==
    CASE flavor = "bool" -> {NumV(1)}
      [] flavor = "num" -> {NaNValue}
      [] flavor = "string" -> {Null}
      [] flavor = "list" -> {DictV(1, 0)}
      [] flavor = "dict" -> {ListV(1, 0)}
      [] OTHER -> {}

\* the configurations the model's Units are constructed with
UnitConfigs ==
    { [flavor |-> f, config |-> DefaultConfig] : f \in Flavors }
    \cup
    { [flavor |-> "bool", config |-> [DefaultConfig EXCEPT !.initialValue = BoolV(TRUE)]],
      [flavor |-> "bool", config |-> [DefaultConfig EXCEPT !.initialValue = NumV(1)]],
      [flavor |-> "num", config |-> [DefaultConfig EXCEPT !.initialValue = NumV(1)]],
      [flavor |-> "num", config |-> [DefaultConfig EXCEPT !.initialValue = NaNValue]],
      [flavor |-> "generic", config |-> [DefaultConfig EXCEPT !.initialValue = NumV(1)]],
      [flavor |-> "num", config |-> [DefaultConfig EXCEPT !.cacheSize = NumV(0)]] }
    \cup
    { [flavor |-> "num",
       config |-> [DefaultConfig EXCEPT !.cacheSize = NumV(3),
                                        !.distinctDispatchCheck = d,
                                        !.customDispatchCheck = c]] :
          d \in BOOLEAN, c \in {"none", "rejectOnes"} }
    \cup
    { [flavor |-> "num",
       config |-> [DefaultConfig EXCEPT !.dispatchDebounce = TRUE,
                                        !.dispatchDebounceMode = m]] :
          m \in {"START", "BOTH", "none"} }
    \cup
    { [flavor |-> "dict", config |-> [DefaultConfig EXCEPT !.immutable = TRUE]] }

\* an object handed in by the caller: the Unit's current object, or a new one
AsArgument(u, v) ==
    IF isObject(v) THEN {[v EXCEPT !.id = FreshId(u)]} \cup
                        {w \in {rawValue(u)} : isObject(w) /\ w.t = v.t /\ w.c = v.c}
    ELSE {v}

DispatchInputs(u) ==
    UNION {AsArgument(u, v) : v \in ValidInputs(u.flavor) \cup InvalidInputs(u.flavor)}

DispatchOptions == [bypassDebounce : BOOLEAN, force : BOOLEAN, cacheReplace : BOOLEAN]
NoDispatchOptions == [bypassDebounce |-> FALSE, force |-> FALSE, cacheReplace |-> FALSE]
ClearCacheOptions == [leaveFirst : BOOLEAN, leaveLast : BOOLEAN]
StepInputs == {NotANumber} \cup {Steps(h) : h \in (-MaxStepH)..MaxStepH}

\* role: the member called ("none" for a call on the Unit or on the system itself);
\* siblings: the other members that emitted during the call
\* value, reason: the value handed to a dispatch whose events$ is observed and the
\* reason of the EventUnitDispatchFail it sent
Called(op, ret, options, steps) ==
    [op |-> op, ret |-> ret, options |-> options, steps |-> steps,
     role |-> "none", siblings |-> {}, value |-> Undefined, reason |-> "none"]

\* the Unit still takes calls that store or emit a value
Live(u) == u.emitCount < MaxEmit /\ cachedValuesCount(u) < MaxCacheLen

\* bypassDebounce is only passed to a Unit that debounces, force and cacheReplace only
\* to one that does not
OptionsFor(u) ==
    {o \in DispatchOptions :
        IF u.config.dispatchDebounce
        THEN ~o.force /\ ~o.cacheReplace
        ELSE ~o.bypassDebounce}

Init ==
    /\ \E c \in UnitConfigs : unit = NewUnit(c.flavor, c.config)
    /\ sys = NewAsyncSystem(DefaultSystemConfig, NoSystemValue)
    /\ last = Called("new", "undefined", NoDispatchOptions, NotANumber)

Dispatch ==
    /\ UNCHANGED sys
    /\ Live(unit)
    /\ \E value \in DispatchInputs(unit), options \in OptionsFor(unit) :
          /\ unit' = dispatch(unit, value, options).u
          /\ last' = Called("dispatch", dispatch(unit, value, options).ret, options, NotANumber)

TimerFires ==
    /\ UNCHANGED sys
    /\ Live(unit)
    /\ unit.timeout.set
    /\ unit' = later(unit).u
    /\ last' = Called("later", later(unit).ret,
                      [bypassDebounce |-> FALSE, force |-> unit.timeout.force,
                       cacheReplace |-> unit.timeout.cacheReplace], NotANumber)

Jump ==
    /\ UNCHANGED sys
    /\ Live(unit)
    /\ \E steps \in StepInputs :
          /\ unit' = jump(unit, steps).u
          /\ last' = Called("jump", jump(unit, steps).ret, NoDispatchOptions, steps)

GoBack ==
    /\ UNCHANGED sys
    /\ Live(unit)
    /\ unit' = goBack(unit).u
    /\ last' = Called("goBack", goBack(unit).ret, NoDispatchOptions, Steps(-2))

GoForward ==
    /\ UNCHANGED sys
    /\ Live(unit)
    /\ unit' = goForward(unit).u
    /\ last' = Called("goForward", goForward(unit).ret, NoDispatchOptions, Steps(2))

JumpToStart ==
    /\ UNCHANGED sys
    /\ Live(unit)
    /\ unit' = jumpToStart(unit).u
    /\ last' = Called("jumpToStart", jumpToStart(unit).ret, NoDispatchOptions,
                     Steps(-unit.cacheIndex))

JumpToEnd ==
    /\ UNCHANGED sys
    /\ Live(unit)
    /\ unit' = jumpToEnd(unit).u
    /\ last' = Called("jumpToEnd", jumpToEnd(unit).ret, NoDispatchOptions,
                     Steps(2 * (cachedValuesCount(unit) - 1) - unit.cacheIndex))

ClearCache ==
    /\ UNCHANGED sys
    /\ \E options \in ClearCacheOptions :
          /\ unit' = clearCache(unit, options).u
          /\ last' = Called("clearCache", clearCache(unit, options).ret,
                            NoDispatchOptions, NotANumber)

ClearValue ==
    /\ UNCHANGED sys
    /\ Live(unit)
    /\ unit' = clearValue(unit).u
    /\ last' = Called("clearValue", clearValue(unit).ret, NoDispatchOptions, NotANumber)

ResetValue ==
    /\ UNCHANGED sys
    /\ Live(unit)
    /\ unit' = resetValue(unit).u
    /\ last' = Called("resetValue", resetValue(unit).ret, NoDispatchOptions, NotANumber)

Clear ==
    /\ UNCHANGED sys
    /\ Live(unit)
    /\ \E options \in ClearCacheOptions :
          /\ unit' = clear(unit, options)
          /\ last' = Called("clear", "undefined", NoDispatchOptions, NotANumber)

Reset ==
    /\ UNCHANGED sys
    /\ Live(unit)
    /\ \E options \in ClearCacheOptions :
          /\ unit' = reset(unit, options)
          /\ last' = Called("reset", "undefined", NoDispatchOptions, NotANumber)

Freeze ==
    /\ UNCHANGED sys
    /\ unit' = freeze(unit)
    /\ last' = Called("freeze", "undefined", NoDispatchOptions, NotANumber)

Unfreeze ==
    /\ UNCHANGED sys
    /\ unit' = unfreeze(unit)
    /\ last' = Called("unfreeze", "undefined", NoDispatchOptions, NotANumber)

Mute ==
    /\ UNCHANGED sys
    /\ unit' = mute(unit)
    /\ last' = Called("mute", "undefined", NoDispatchOptions, NotANumber)

Unmute ==
    /\ UNCHANGED sys
    /\ Live(unit)
    /\ unit' = unmute(unit)
    /\ last' = Called("unmute", "undefined", NoDispatchOptions, NotANumber)

Replay ==
    /\ UNCHANGED sys
    /\ Live(unit)
    /\ unit' = replay(unit).u
    /\ last' = Called("replay", replay(unit).ret, NoDispatchOptions, NotANumber)

Next ==
    \/ Dispatch \/ TimerFires
    \/ Jump \/ GoBack \/ GoForward \/ JumpToStart \/ JumpToEnd
    \/ ClearCache \/ ClearValue \/ ResetValue \/ Clear \/ Reset
    \/ Freeze \/ Unfreeze \/ Replay

Spec == Init /\ [][Next]_vars

(* ---------------------------------------------------------------------- *)
(* Specification SpecAdmit: one Unit whose events$ is observed, the        *)
(* dispatches made on it and its freezing and unfreezing                   *)
(* ---------------------------------------------------------------------- *)
\* the configurations of the Units whose dispatch checks are observed
AdmitConfigs ==
    { [flavor |-> f,
       config |-> [DefaultConfig EXCEPT !.cacheSize = NumV(3),
                                        !.distinctDispatchCheck = d,
                                        !.customDispatchCheck = c]] :
          f \in {"num", "dict"}, d \in BOOLEAN, c \in {"none", "rejectOnes"} }
    \cup
    { [flavor |-> "num",
       config |-> [DefaultConfig EXCEPT !.cacheSize = NumV(3),
                                        !.customDispatchCheck = c,
                                        !.initialValue = i]] :
          c \in {"none", "rejectOnes"}, i \in {NumV(1), NaNValue} }

InitAdmit ==
    /\ \E c \in AdmitConfigs : unit = NewUnit(c.flavor, c.config)
    /\ sys = NewAsyncSystem(DefaultSystemConfig, NoSystemValue)
    /\ last = Called("new", "undefined", NoDispatchOptions, NotANumber)

ObservedDispatch ==
    /\ UNCHANGED sys
    /\ Live(unit)
    /\ \E value \in DispatchInputs(unit), force \in BOOLEAN :
          LET options == [NoDispatchOptions EXCEPT !.force = force]
              called == dispatch(unit, value, options)
          IN /\ unit' = called.u
             /\ last' = [Called("dispatch", called.ret, options, NotANumber)
                            EXCEPT !.value = value,
                                   !.reason = dispatchFailEvent(unit, value, options)]

NextAdmit == ObservedDispatch \/ Freeze \/ Unfreeze

SpecAdmit == InitAdmit /\ [][NextAdmit]_vars

(* ---------------------------------------------------------------------- *)
(* Specification SpecBurst: one Unit that debounces, the proposals made to *)
(* it and the timer of debounce. `last` also carries the history of the    *)
(* window: whether one is open, how many proposals it has had, the latest  *)
(* proposal, how often that one has been evaluated (handed to              *)
(* dispatchActual) and whether an evaluation refused it.                   *)
(* ---------------------------------------------------------------------- *)
\* the configurations of the Units that debounce; a mode left out means END
BurstConfigs ==
    { [flavor |-> "num",
       config |-> [DefaultConfig EXCEPT !.dispatchDebounce = TRUE,
                                        !.dispatchDebounceMode = m]] :
          m \in {"START", "END", "BOTH", "none"} }

NoBurst ==
    [open |-> FALSE, proposals |-> 0, latest |-> Undefined, force |-> FALSE,
     evaluations |-> 0, refused |-> FALSE]

BurstCalled(op, ret, options, value, burst) ==
    [op |-> op, ret |-> ret, options |-> options, steps |-> NotANumber,
     role |-> "none", siblings |-> {}, value |-> value, reason |-> "none",
     burst |-> burst]

InitBurst ==
    /\ \E c \in BurstConfigs : unit = NewUnit(c.flavor, c.config)
    /\ sys = NewAsyncSystem(DefaultSystemConfig, NoSystemValue)
    /\ last = BurstCalled("new", "undefined", NoDispatchOptions, Undefined, NoBurst)

BurstDispatch ==
    /\ UNCHANGED sys
    /\ Live(unit)
    /\ last.burst.open => last.burst.proposals < MaxBurst
    /\ \E value \in DispatchInputs(unit), force \in BOOLEAN :
          LET options == [NoDispatchOptions EXCEPT !.force = force]
              called == dispatch(unit, value, options)
          IN /\ unit' = called.u
             /\ last' = BurstCalled("dispatch", called.ret, options, value,
                           [open |-> TRUE,
                            proposals |-> IF last.burst.open
                                          THEN last.burst.proposals + 1 ELSE 1,
                            latest |-> value,
                            force |-> force,
                            evaluations |-> IF called.ret = "undefined" THEN 0 ELSE 1,
                            refused |-> called.ret = "false"])

WindowElapses ==
    /\ UNCHANGED sys
    /\ Live(unit)
    /\ unit.timeout.set
    /\ LET fired == later(unit)
       IN /\ unit' = fired.u
          /\ last' = BurstCalled("later", fired.ret, NoDispatchOptions, Undefined,
                        [last.burst EXCEPT
                            !.open = FALSE,
                            !.evaluations = IF fired.ret = "undefined" THEN @ ELSE @ + 1,
                            !.refused = @ \/ fired.ret = "false"])

BurstFreeze ==
    /\ UNCHANGED sys
    /\ unit' = freeze(unit)
    /\ last' = BurstCalled("freeze", "undefined", NoDispatchOptions, Undefined, last.burst)

BurstUnfreeze ==
    /\ UNCHANGED sys
    /\ unit' = unfreeze(unit)
    /\ last' = BurstCalled("unfreeze", "undefined", NoDispatchOptions, Undefined, last.burst)

NextBurst == BurstDispatch \/ WindowElapses \/ BurstFreeze \/ BurstUnfreeze

SpecBurst == InitBurst /\ [][NextBurst]_vars

(* ---------------------------------------------------------------------- *)
(* Specification SpecGate: one Unit whose events$ is observed, the calls   *)
(* that change its value, and its muting and freezing                      *)
(* ---------------------------------------------------------------------- *)
\* the configurations of the Units that are muted and frozen
GateConfigs ==
    { [flavor |-> "num", config |-> [DefaultConfig EXCEPT !.cacheSize = NumV(2)]],
      [flavor |-> "num", config |-> [DefaultConfig EXCEPT !.cacheSize = NumV(2),
                                                          !.initialValue = NumV(1),
                                                          !.distinctDispatchCheck = TRUE]] }

\* the steps of the jumps made on them: goBack, goForward and a jump that is refused
GateSteps == {NotANumber, Steps(-2), Steps(2)}

\* the event a handler sends to events$, which has a subscriber, once it has done its
\* work: `if (this.eventsSubject && !this.isMuted) { this.eventsSubject.next(event) }`
eventOf(u, name, done) == IF done /\ ~u.isMuted THEN <<name>> ELSE <<>>

\* the events sent by dispatchActual, jump, clearValue, resetValue, clearCache, freeze,
\* unfreeze, clear, reset and unmute
dispatchEvents(u, value, options) ==
    eventOf(u, "EventUnitDispatch", wouldDispatch(u, value, options.force))
    \o eventOf(u, "EventUnitDispatchFail", ~wouldDispatch(u, value, options.force))

jumpEvents(u, steps) == eventOf(u, "EventUnitJump", jump(u, steps).ret = "true")

clearValueEvents(u) == eventOf(u, "EventUnitClearValue", clearValue(u).ret = "true")

resetValueEvents(u) == eventOf(u, "EventUnitResetValue", resetValue(u).ret = "true")

clearCacheEvents(u, options) ==
    eventOf(u, "EventUnitClearCache", clearCache(u, options).ret = "true")

freezeEvents(u) == eventOf(u, "EventUnitFreeze", ~u.isFrozen)

unfreezeEvents(u) == eventOf(u, "EventUnitUnfreeze", u.isFrozen)

clearEvents(u, options) ==
    unfreezeEvents(u) \o clearValueEvents(unfreeze(u))
    \o clearCacheEvents(clearValue(unfreeze(u)).u, options)
    \o eventOf(u, "EventUnitClear", TRUE)

resetEvents(u, options) ==
    unfreezeEvents(u) \o resetValueEvents(unfreeze(u))
    \o clearCacheEvents(resetValue(unfreeze(u)).u, options)
    \o eventOf(u, "EventUnitReset", TRUE)

unmuteEvents(u) == IF u.isMuted THEN <<"EventUnitUnmute">> ELSE <<>>

\* events: the events the call sent to events$; admitted: a call has changed the value
\* since the Unit was muted (FALSE while the Unit is not muted)
GateCalled(op, ret, options, steps, value, events, admitted) ==
    [op |-> op, ret |-> ret, options |-> options, steps |-> steps,
     role |-> "none", siblings |-> {}, value |-> value, reason |-> "none",
     events |-> events, admitted |-> admitted]

\* a change of value was admitted since the Unit was muted, after a call that leaves
\* the Unit as after and has or has not changed the value
AdmittedSinceMute(after, changed) == after.isMuted /\ (last.admitted \/ changed)

InitGate ==
    /\ \E c \in GateConfigs : unit = NewUnit(c.flavor, c.config)
    /\ sys = NewAsyncSystem(DefaultSystemConfig, NoSystemValue)
    /\ last = GateCalled("new", "undefined", NoDispatchOptions, NotANumber, Undefined,
                         <<>>, FALSE)

GateDispatch ==
    /\ UNCHANGED sys
    /\ Live(unit)
    /\ \E value \in DispatchInputs(unit), force \in BOOLEAN :
          LET options == [NoDispatchOptions EXCEPT !.force = force]
              called == dispatch(unit, value, options)
          IN /\ unit' = called.u
             /\ last' = GateCalled("dispatch", called.ret, options, NotANumber, value,
                                   dispatchEvents(unit, value, options),
                                   AdmittedSinceMute(called.u, called.ret = "true"))

GateJump ==
    /\ UNCHANGED sys
    /\ Live(unit)
    /\ \E steps \in GateSteps :
          LET called == jump(unit, steps)
          IN /\ unit' = called.u
             /\ last' = GateCalled("jump", called.ret, NoDispatchOptions, steps, Undefined,
                                   jumpEvents(unit, steps),
                                   AdmittedSinceMute(called.u, called.ret = "true"))

GateClearValue ==
    /\ UNCHANGED sys
    /\ Live(unit)
    /\ LET called == clearValue(unit)
       IN /\ unit' = called.u
          /\ last' = GateCalled("clearValue", called.ret, NoDispatchOptions, NotANumber,
                                Undefined, clearValueEvents(unit),
                                AdmittedSinceMute(called.u, called.ret = "true"))

GateResetValue ==
    /\ UNCHANGED sys
    /\ Live(unit)
    /\ LET called == resetValue(unit)
       IN /\ unit' = called.u
          /\ last' = GateCalled("resetValue", called.ret, NoDispatchOptions, NotANumber,
                                Undefined, resetValueEvents(unit),
                                AdmittedSinceMute(called.u, called.ret = "true"))

GateClear ==
    /\ UNCHANGED sys
    /\ Live(unit)
    /\ \E options \in ClearCacheOptions :
          /\ unit' = clear(unit, options)
          /\ last' = GateCalled("clear", "undefined", NoDispatchOptions, NotANumber,
                                Undefined, clearEvents(unit, options),
                                AdmittedSinceMute(unit,
                                    clearValue(unfreeze(unit)).ret = "true"))

GateReset ==
    /\ UNCHANGED sys
    /\ Live(unit)
    /\ \E options \in ClearCacheOptions :
          /\ unit' = reset(unit, options)
          /\ last' = GateCalled("reset", "undefined", NoDispatchOptions, NotANumber,
                                Undefined, resetEvents(unit, options),
                                AdmittedSinceMute(unit,
                                    resetValue(unfreeze(unit)).ret = "true"))

GateReplay ==
    /\ UNCHANGED sys
    /\ Live(unit)
    /\ unit' = replay(unit).u
    /\ last' = GateCalled("replay", replay(unit).ret, NoDispatchOptions, NotANumber,
                          Undefined, <<>>, AdmittedSinceMute(unit, FALSE))

GateFreeze ==
    /\ UNCHANGED sys
    /\ unit' = freeze(unit)
    /\ last' = GateCalled("freeze", "undefined", NoDispatchOptions, NotANumber, Undefined,
                          freezeEvents(unit), AdmittedSinceMute(unit, FALSE))

GateUnfreeze ==
    /\ UNCHANGED sys
    /\ unit' = unfreeze(unit)
    /\ last' = GateCalled("unfreeze", "undefined", NoDispatchOptions, NotANumber, Undefined,
                          unfreezeEvents(unit), AdmittedSinceMute(unit, FALSE))

GateMute ==
    /\ UNCHANGED sys
    /\ unit' = mute(unit)
    /\ last' = GateCalled("mute", "undefined", NoDispatchOptions, NotANumber, Undefined,
                          <<>>, AdmittedSinceMute(mute(unit), FALSE))

GateUnmute ==
    /\ UNCHANGED sys
    /\ Live(unit)
    /\ unit' = unmute(unit)
    /\ last' = GateCalled("unmute", "undefined", NoDispatchOptions, NotANumber, Undefined,
                          unmuteEvents(unit), FALSE)

NextGate ==
    \/ GateDispatch \/ GateJump \/ GateClearValue \/ GateResetValue
    \/ GateClear \/ GateReset \/ GateReplay
    \/ GateFreeze \/ GateUnfreeze \/ GateMute \/ GateUnmute

SpecGate == InitGate /\ [][NextGate]_vars

(* ---------------------------------------------------------------------- *)
(* Specification SpecReentrant: one Unit with a subscriber that dispatches *)
(* to the Unit from inside its callback. Base.emit calls the subscriber    *)
(* synchronously, so the subscriber's dispatch runs inside the call that   *)
(* emits, after that call has stored its value and before it sends its     *)
(* event and returns.                                                      *)
(* ---------------------------------------------------------------------- *)
\* the configurations of the Units that are subscribed to
ReentrantConfigs ==
    { [flavor |-> "num", config |-> [DefaultConfig EXCEPT !.cacheSize = c,
                                                          !.distinctDispatchCheck = d]] :
          c \in {NumV(1), Undefined, NumV(3)}, d \in BOOLEAN }

\* the subscribers: value is what the callback dispatches when another value is pushed
\* to it, with the option cacheReplace; an inactive one dispatches nothing
Subscribers ==
    [active : BOOLEAN, value : {NumV(0), NumV(1), NaNValue}, cacheReplace : BOOLEAN]

NotCalledBack == "none"

\* a callback that dispatches with cacheReplace whatever options it was given
callbackReplacesEntry(u, sub) ==
    IF sub.active /\ ~StrictEq(u.emittedValue, sub.value)
    THEN dispatch(u, sub.value, [NoDispatchOptions EXCEPT !.cacheReplace = TRUE])
    ELSE [u |-> u, ret |-> NotCalledBack]

\* the subscriber's callback, called by Base.emit with the value u has just emitted:
\* `v => { if (v !== sub.value) { unit.dispatch(sub.value, options) } }`. The emission
\* of its own dispatch calls it again with sub.value, and then it does nothing.
callback(u, sub) ==
    IF sub.active /\ ~StrictEq(u.emittedValue, sub.value)
    THEN dispatch(u, sub.value,
                  [NoDispatchOptions EXCEPT !.cacheReplace = sub.cacheReplace])
    ELSE [u |-> u, ret |-> NotCalledBack]

\* the events of the callback's dispatch, sent before its dispatch returns
callbackEvents(u, sub) ==
    IF sub.active /\ ~StrictEq(u.emittedValue, sub.value)
    THEN dispatchEvents(u, sub.value,
                        [NoDispatchOptions EXCEPT !.cacheReplace = sub.cacheReplace])
    ELSE <<>>

\* a call that has taken the Unit from before to called.u, with the subscriber called
\* back if the call emitted: inner is what the callback's dispatch returned
withSubscriber(before, called, sub) ==
    IF called.u.emitCount > before.emitCount
    THEN [u |-> callback(called.u, sub).u, ret |-> called.ret,
          inner |-> callback(called.u, sub).ret,
          events |-> callbackEvents(called.u, sub)]
    ELSE [u |-> called.u, ret |-> called.ret, inner |-> NotCalledBack, events |-> <<>>]

\* sub, inner: the subscriber and what its dispatch returned; stored: the value and the
\* cache before the call; events: the events sent during the call, in order
ReentrantCalled(op, ret, options, steps, value, sub, inner, stored, events) ==
    [op |-> op, ret |-> ret, options |-> options, steps |-> steps,
     role |-> "none", siblings |-> {}, value |-> value, reason |-> "none",
     sub |-> sub, inner |-> inner, stored |-> stored, events |-> events]

InitReentrant ==
    /\ \E c \in ReentrantConfigs : unit = NewUnit(c.flavor, c.config)
    /\ sys = NewAsyncSystem(DefaultSystemConfig, NoSystemValue)
    /\ last = ReentrantCalled("new", "undefined", NoDispatchOptions, NotANumber,
                  Undefined, [active |-> FALSE, value |-> NumV(0), cacheReplace |-> FALSE],
                  NotCalledBack,
                  [value |-> unit.value, cachedValues |-> unit.cachedValues,
                   cacheIndex |-> unit.cacheIndex],
                  <<>>)

SubscribedDispatch ==
    /\ UNCHANGED sys
    /\ unit.emitCount + 1 < MaxEmit
    /\ \E value \in DispatchInputs(unit), force \in BOOLEAN, sub \in Subscribers :
          LET options == [NoDispatchOptions EXCEPT !.force = force]
              called == withSubscriber(unit, dispatch(unit, value, options), sub)
          IN /\ unit' = called.u
             /\ last' = ReentrantCalled("dispatch", called.ret, options, NotANumber,
                            value, sub, called.inner,
                            [value |-> unit.value, cachedValues |-> unit.cachedValues,
                             cacheIndex |-> unit.cacheIndex],
                            called.events \o dispatchEvents(unit, value, options))

SubscribedJump ==
    /\ UNCHANGED sys
    /\ unit.emitCount + 1 < MaxEmit
    /\ \E steps \in GateSteps, sub \in Subscribers :
          LET called == withSubscriber(unit, jump(unit, steps), sub)
          IN /\ unit' = called.u
             /\ last' = ReentrantCalled("jump", called.ret, NoDispatchOptions, steps,
                            Undefined, sub, called.inner,
                            [value |-> unit.value, cachedValues |-> unit.cachedValues,
                             cacheIndex |-> unit.cacheIndex],
                            called.events \o jumpEvents(unit, steps))

NextReentrant == SubscribedDispatch \/ SubscribedJump

SpecReentrant == InitReentrant /\ [][NextReentrant]_vars

(* ---------------------------------------------------------------------- *)
(* Specification SpecPersist: a persistent Unit, the item of the storage   *)
(* under its key, the calls that change its value, and the construction of *)
(* a Unit with the same id over the same storage. The item is modelled by  *)
(* the JSON text that save writes: a text has no object identity, has no   *)
(* NaN, and drops a key whose value is undefined.                          *)
(* ---------------------------------------------------------------------- *)
\* the configurations of the persistent Units
PersistConfigs ==
    { [flavor |-> f, config |-> DefaultConfig] : f \in {"num", "generic"} }

\* JSON.stringify({value}): "{}" when the value is undefined, null for NaN
Absent == [t |-> "absent", c |-> 0, id |-> 0]

stringify(value) ==
    CASE value.t = "undefined" -> Absent
      [] value.t = "nan" -> Null
      [] OTHER -> [value EXCEPT !.id = 0]

\* JSON.parse(raw).value, read by the Unit u: arrays and dictionaries are new objects
parse(u, text) ==
    CASE text.t = "absent" -> Undefined
      [] isObject(text) -> [text EXCEPT !.id = FreshId(u)]
      [] OTHER -> text

\* storage.getItem(key) of a key that was never set, or was removed
NoItem == [set |-> FALSE, text |-> Absent]

\* persistence save: the item after storage.setItem
save(value) == [set |-> TRUE, text |-> stringify(value)]

\* persistence retrieve: null if there is no item
retrieve(u, item) ==
    IF item.set THEN [found |-> TRUE, value |-> parse(u, item.text)]
    ELSE [found |-> FALSE, value |-> Undefined]

\* UnitBase.updateValueInPersistentStorage, the last statement of updateValueAndCache
updateValueInPersistentStorage(u) == save(rawValue(u))

\* UnitBase.restoreValueFromPersistentStorage
restoreValueFromPersistentStorage(u, initialValue, item) ==
    IF retrieve(u, item).found
    THEN dispatchInitialValue(u, retrieve(u, item).value)
    ELSE dispatchInitialValue(u, deepCopyMaybe(u, initialValue))

\* UnitBase.constructor of a persistent Unit
NewPersistentUnit(flavor, config, item) ==
    restoreValueFromPersistentStorage(BlankUnit(flavor, config), config.initialValue, item)

\* the item after a call that has taken the Unit to called.u: written if the call ran
\* updateValueAndCache
persisted(called, item) ==
    IF called.ret = "true" THEN updateValueInPersistentStorage(called.u) ELSE item

\* item: the item in the storage after the call; cleared: clearPersistedValue was
\* called since the value last changed
PersistCalled(op, ret, options, steps, value, item, cleared) ==
    [op |-> op, ret |-> ret, options |-> options, steps |-> steps,
     role |-> "none", siblings |-> {}, value |-> value, reason |-> "none",
     item |-> item, cleared |-> cleared]

InitPersist ==
    /\ \E c \in PersistConfigs : unit = NewPersistentUnit(c.flavor, c.config, NoItem)
    /\ sys = NewAsyncSystem(DefaultSystemConfig, NoSystemValue)
    /\ last = PersistCalled("new", "undefined", NoDispatchOptions, NotANumber, Undefined,
                            updateValueInPersistentStorage(unit), FALSE)

PersistDispatch ==
    /\ UNCHANGED sys
    /\ Live(unit)
    /\ \E value \in DispatchInputs(unit) \cup {NaNValue} :
          LET options == NoDispatchOptions
              called == dispatch(unit, value, options)
          IN /\ unit' = called.u
             /\ last' = PersistCalled("dispatch", called.ret, options, NotANumber, value,
                                      persisted(called, last.item),
                                      last.cleared /\ called.ret # "true")

PersistJump ==
    /\ UNCHANGED sys
    /\ Live(unit)
    /\ \E steps \in GateSteps :
          LET called == jump(unit, steps)
          IN /\ unit' = called.u
             /\ last' = PersistCalled("jump", called.ret, NoDispatchOptions, steps,
                                      Undefined, persisted(called, last.item),
                                      last.cleared /\ called.ret # "true")

PersistClearValue ==
    /\ UNCHANGED sys
    /\ Live(unit)
    /\ LET called == clearValue(unit)
       IN /\ unit' = called.u
          /\ last' = PersistCalled("clearValue", called.ret, NoDispatchOptions, NotANumber,
                                   Undefined, persisted(called, last.item),
                                   last.cleared /\ called.ret # "true")

PersistResetValue ==
    /\ UNCHANGED sys
    /\ Live(unit)
    /\ LET called == resetValue(unit)
       IN /\ unit' = called.u
          /\ last' = PersistCalled("resetValue", called.ret, NoDispatchOptions, NotANumber,
                                   Undefined, persisted(called, last.item),
                                   last.cleared /\ called.ret # "true")

PersistMute ==
    /\ UNCHANGED sys
    /\ unit' = mute(unit)
    /\ last' = PersistCalled("mute", "undefined", NoDispatchOptions, NotANumber, Undefined,
                             last.item, last.cleared)

PersistUnmute ==
    /\ UNCHANGED sys
    /\ Live(unit)
    /\ unit' = unmute(unit)
    /\ last' = PersistCalled("unmute", "undefined", NoDispatchOptions, NotANumber,
                             Undefined, last.item, last.cleared)

\* UnitBase.clearPersistedValue
ClearPersistedValue ==
    /\ UNCHANGED <<sys, unit>>
    /\ last' = PersistCalled("clearPersistedValue", "true", NoDispatchOptions, NotANumber,
                             Undefined, NoItem, TRUE)

\* a Unit of the same flavor is constructed with the same id over the same storage,
\* with an initialValue of its own; value records the value the old Unit had
Reconstruct ==
    /\ UNCHANGED sys
    /\ \E initialValue \in {Undefined, NumV(1)} :
          LET config == [unit.config EXCEPT !.initialValue = initialValue]
              built == NewPersistentUnit(unit.flavor, config, last.item)
          IN /\ unit' = built
             /\ last' = PersistCalled("new", "undefined", NoDispatchOptions, NotANumber,
                                      rawValue(unit),
                                      updateValueInPersistentStorage(built),
                                      FALSE)

NextPersist ==
    \/ PersistDispatch \/ PersistJump \/ PersistClearValue \/ PersistResetValue
    \/ PersistMute \/ PersistUnmute \/ ClearPersistedValue \/ Reconstruct

SpecPersist == InitPersist /\ [][NextPersist]_vars

(* ---------------------------------------------------------------------- *)
(* Specification SpecPath: the construction of a Selection on a Unit with  *)
(* a path handed in by the caller. A segment of a path is a JavaScript     *)
(* value: t is what it is, h its number in halves (or which property name  *)
(* it is).                                                                 *)
(* ---------------------------------------------------------------------- *)
\* the longest path handed in
MaxPathLen == 2

\* the property names "a" and "b"
StringKey(n) == [t |-> "string", h |-> 2 * n]
KeyA == StringKey(0)
KeyB == StringKey(1)

\* the number h / 2, and NaN
NumberKey(h) == [t |-> "number", h |-> h]
NaNKey == [t |-> "nan", h |-> 0]

\* false, undefined, null or {} or [], a function
OtherKey(t) == [t |-> t, h |-> 0]

\* the typeof operator
typeOf(key) == IF key.t = "nan" THEN "number" ELSE key.t

\* the segments handed in: names, the numbers 0, 1, -1, 1/2 and NaN, and the values
\* that are neither names nor numbers
Segments ==
    {KeyA, KeyB, NumberKey(0), NumberKey(2), NumberKey(-2), NumberKey(1), NaNKey}
    \cup {OtherKey(t) : t \in {"boolean", "undefined", "object", "function"}}

\* the paths handed in
Paths == UNION {[1..n -> Segments] : n \in 0..MaxPathLen}

NoError == "none"

\* checkPath that takes a path without keys
checkPathAllowsEmpty(path) ==
    IF \E i \in 1..Len(path) : typeOf(path[i]) \notin {"string", "number"}
    THEN "Expected numbers and strings"
    ELSE NoError

\* checks checkPath: the message of the TypeError it throws
checkPath(path) ==
    IF Len(path) = 0
    THEN "Expected at least one key"
    ELSE IF \E i \in 1..Len(path) : typeOf(path[i]) \notin {"string", "number"}
         THEN "Expected numbers and strings"
         ELSE NoError

\* unit instanceof NonPrimitiveUnitBase: ListUnit, DictUnit and GenericUnit
isNonPrimitiveUnit(u) == u.flavor \in {"list", "dict", "generic"}

\* Selection.constructor, also reached by NonPrimitiveUnitBase.select: the message of
\* the TypeError thrown, or the Selection
NewSelection(u, path) ==
    IF ~isNonPrimitiveUnit(u)
    THEN [thrown |-> "Expected the unit to be one of ListUnit, DictUnit, GenericUnit",
          path |-> <<>>]
    ELSE IF checkPath(path) # NoError
         THEN [thrown |-> checkPath(path), path |-> <<>>]
         ELSE [thrown |-> NoError, path |-> path]

\* the Units a Selection is constructed on
PathConfigs ==
    { [flavor |-> f, config |-> DefaultConfig] : f \in {"num", "list", "dict", "generic"} }

\* path: the path handed in; thrown: the error of the construction made with it
PathCalled(op, path, thrown) ==
    [op |-> op, ret |-> "undefined", options |-> NoDispatchOptions, steps |-> NotANumber,
     role |-> "none", siblings |-> {}, value |-> Undefined, reason |-> "none",
     path |-> path, thrown |-> thrown]

InitPath ==
    /\ \E c \in PathConfigs : unit = NewUnit(c.flavor, c.config)
    /\ sys = NewAsyncSystem(DefaultSystemConfig, NoSystemValue)
    /\ \E path \in Paths : last = PathCalled("new", path, NoError)

Select ==
    /\ UNCHANGED <<unit, sys>>
    /\ last.op = "new"
    /\ last' = PathCalled("select", last.path, NewSelection(unit, last.path).thrown)

NextPath == Select

SpecPath == InitPath /\ [][NextPath]_vars

(* ---------------------------------------------------------------------- *)
(* Specification SpecSelect: a DictUnit whose value is a dictionary        *)
(* {a: ..., b: ...}, a Selection on it whose observable has a subscriber,  *)
(* and the dispatches and replays of the Unit. The property a holds a      *)
(* number x, or an object {a: x}; the property b holds a number y. An      *)
(* object under a property is made together with its container, by the    *)
(* caller's literal or by deepCopy, which clones every level: it carries   *)
(* the identity of its container.                                          *)
(* ---------------------------------------------------------------------- *)
\* the dictionary {a: x, b: y}, or {a: {a: x}, b: y} when nested
DictOf(nested, x, y) == DictV(1 + y + 2 * x + (IF nested THEN 4 ELSE 0), 0)

\* the object {a: x} held under the property a of the dictionary with identity ref
InnerOf(x, ref) == DictV(9 + x, ref)

isOuter(o) == isDict(o) /\ o.c \in 1..8
isInner(o) == isDict(o) /\ o.c > 8
hasObjectAtA(o) == isOuter(o) /\ o.c > 4
aOf(o) == ((o.c - 1) \div 2) % 2
bOf(o) == (o.c - 1) % 2

\* Object.prototype.hasOwnProperty.call(o, key) ? o[key] : undefined
ownProperty(o, key) ==
    CASE isOuter(o) /\ key = KeyA ->
            IF hasObjectAtA(o) THEN InnerOf(aOf(o), o.id) ELSE NumV(aOf(o))
      [] isOuter(o) /\ key = KeyB -> NumV(bOf(o))
      [] isInner(o) /\ key = KeyA -> NumV(o.c - 9)
      [] OTHER -> Undefined

\* utils plucker
RECURSIVE plucker(_, _)
plucker(o, path) ==
    IF Len(path) = 0 THEN o
    ELSE IF o \in {Undefined, Null} THEN Undefined
    ELSE plucker(ownProperty(o, Head(path)), Tail(path))

\* an observable of a Selection that forwards the value at its path on every push
asObservableForwardsAll(u, sel) ==
    [sel EXCEPT !.prev = plucker(rawValue(u), sel.path),
                !.count = @ + 1,
                !.got = plucker(u.emittedValue, sel.path)]

\* Selection.asObservable at one push of the Unit u, which has just emitted
\* u.emittedValue; prev is the value distinctUntilChanged compared last, count the
\* values forwarded to the subscriber so far and got the last of them
asObservable(u, sel) ==
    LET plucked == IF u.config.immutable
                   THEN plucker(rawValue(u), sel.path)
                   ELSE plucker(u.emittedValue, sel.path)
    IN IF sel.count > 0 /\ StrictEq(sel.prev, plucked)
       THEN sel
       ELSE [sel EXCEPT !.prev = plucked,
                        !.count = @ + 1,
                        !.got = plucker(u.emittedValue, sel.path)]

NoSelection == [made |-> FALSE, path |-> <<>>, prev |-> Undefined, count |-> 0,
                got |-> Undefined]

\* selection.asObservable().subscribe(...) on a Unit that replays: the Unit pushes its
\* last emitted value to the new subscriber at once
subscribed(u, path) ==
    asObservable(u, [NoSelection EXCEPT !.made = TRUE, !.path = path])

\* the observable after a call that took the Unit from before to after
pushed(before, after, sel) ==
    IF sel.made /\ after.emitCount > before.emitCount THEN asObservable(after, sel)
    ELSE sel

\* the Units selected from: dictionaries with a number or with an object under a,
\* with a cache that keeps every value stored
SelectConfigs ==
    { [flavor |-> "dict",
       config |-> [DefaultConfig EXCEPT !.immutable = i,
                                        !.cacheSize = NumV(MaxCacheLen),
                                        !.initialValue = DictOf(nested, 0, 0)]] :
          i \in BOOLEAN, nested \in BOOLEAN }

\* the paths selected: a, b, a.a and the empty path
SelectPaths == {<<KeyA>>, <<KeyB>>, <<KeyA, KeyA>>, <<>>}

\* the dictionaries dispatched: new object literals of the shape of the initial value
SelectInputs(u) ==
    { [DictOf(hasObjectAtA(initialValueRaw(u)), x, y) EXCEPT !.id = FreshId(u)] :
          x \in {0, 1}, y \in {0, 1} }

\* selection: the Selection and its observable; thrown: the error of its construction
SelectCalled(op, ret, value, selection, thrown) ==
    [op |-> op, ret |-> ret, options |-> NoDispatchOptions, steps |-> NotANumber,
     role |-> "none", siblings |-> {}, value |-> value, reason |-> "none",
     selection |-> selection, thrown |-> thrown]

InitSelect ==
    /\ \E c \in SelectConfigs : unit = NewUnit(c.flavor, c.config)
    /\ sys = NewAsyncSystem(DefaultSystemConfig, NoSystemValue)
    /\ last = SelectCalled("new", "undefined", Undefined, NoSelection, NoError)

SelectAndSubscribe ==
    /\ UNCHANGED <<unit, sys>>
    /\ ~last.selection.made
    /\ \E path \in SelectPaths :
          LET made == NewSelection(unit, path)
          IN last' = SelectCalled("select", "undefined", Undefined,
                                  IF made.thrown = NoError
                                  THEN subscribed(unit, made.path)
                                  ELSE NoSelection,
                                  made.thrown)

SelectedDispatch ==
    /\ UNCHANGED sys
    /\ Live(unit)
    /\ \E value \in SelectInputs(unit) :
          LET called == dispatch(unit, value, NoDispatchOptions)
          IN /\ unit' = called.u
             /\ last' = SelectCalled("dispatch", called.ret, value,
                                     pushed(unit, called.u, last.selection), NoError)

SelectedReplay ==
    /\ UNCHANGED sys
    /\ Live(unit)
    /\ unit' = replay(unit).u
    /\ last' = SelectCalled("replay", replay(unit).ret, Undefined,
                            pushed(unit, replay(unit).u, last.selection), NoError)

NextSelect == SelectAndSubscribe \/ SelectedDispatch \/ SelectedReplay

SpecSelect == InitSelect /\ [][NextSelect]_vars

(* ---------------------------------------------------------------------- *)
(* Specification SpecSkip: a GenericUnit whose cache holds nil values, its *)
(* dispatches and its navigation with and without skipNilValues            *)
(* ---------------------------------------------------------------------- *)
\* utils isValidIndex: `a = []; a[i] = 1; return !!a.length && a[i] === 1`, which holds
\* of the whole numbers from 0 on (i in halves)
isValidIndex(h) == IsWhole(h) /\ h >= 0

\* the predicate v => v != null
notNil(v) == v.t \notin {"undefined", "null"}

\* utils findIndex with that predicate; fromIndex in halves, the result a position
\* counted from 0, or -1
findIndex(array, fromIndex) ==
    LET i == IF isValidIndex(fromIndex)
             THEN Max(0, Min(fromIndex \div 2, Len(array) - 1))
             ELSE 0
        found == {j \in i..(Len(array) - 1) : notNil(array[j + 1])}
    IN IF found = {} THEN -1 ELSE CHOOSE j \in found : \A k \in found : j <= k

\* utils findIndexBackwards with that predicate
findIndexBackwards(array, fromIndex) ==
    LET i == IF isValidIndex(fromIndex)
             THEN Max(0, Min(fromIndex \div 2, Len(array) - 1))
             ELSE Len(array) - 1
        found == {j \in 0..i : notNil(array[j + 1])}
    IN IF found = {} THEN -1 ELSE CHOOSE j \in found : \A k \in found : j >= k

\* GenericUnit.goToNonNilValue, reached by goBack(true) and goForward(true)
goToNonNilValue(u, direction) ==
    IF u.isFrozen
    THEN [u |-> u, ret |-> "false"]
    ELSE LET lastNonNilValueIndex ==
                 IF direction = "BACK"
                 THEN findIndexBackwards(u.cachedValues, u.cacheIndex - 2)
                 ELSE findIndex(u.cachedValues, u.cacheIndex + 2)
         IN IF lastNonNilValueIndex = -1
            THEN [u |-> u, ret |-> "false"]
            ELSE jump(u, Steps(2 * lastNonNilValueIndex - u.cacheIndex))

\* the GenericUnits navigated: a cache of two or of three values, with and without an
\* initial value
SkipConfigs ==
    { [flavor |-> "generic", config |-> [DefaultConfig EXCEPT !.cacheSize = c,
                                                              !.initialValue = v]] :
          c \in {Undefined, NumV(3)}, v \in {Undefined, NumV(1)} }

\* skipNilValues: the argument of goBack and goForward
SkipCalled(op, ret, skipNilValues) ==
    [op |-> op, ret |-> ret, options |-> NoDispatchOptions, steps |-> NotANumber,
     role |-> "none", siblings |-> {}, value |-> Undefined, reason |-> "none",
     skipNilValues |-> skipNilValues]

InitSkip ==
    /\ \E c \in SkipConfigs : unit = NewUnit(c.flavor, c.config)
    /\ sys = NewAsyncSystem(DefaultSystemConfig, NoSystemValue)
    /\ last = SkipCalled("new", "undefined", FALSE)

SkipDispatch ==
    /\ UNCHANGED sys
    /\ Live(unit)
    /\ \E value \in DispatchInputs(unit) :
          /\ unit' = dispatch(unit, value, NoDispatchOptions).u
          /\ last' = SkipCalled("dispatch", dispatch(unit, value, NoDispatchOptions).ret,
                                FALSE)

SkipGoBack ==
    /\ UNCHANGED sys
    /\ Live(unit)
    /\ \E skipNilValues \in BOOLEAN :
          LET called == IF skipNilValues THEN goToNonNilValue(unit, "BACK")
                        ELSE goBack(unit)
          IN /\ unit' = called.u
             /\ last' = SkipCalled("goBack", called.ret, skipNilValues)

SkipGoForward ==
    /\ UNCHANGED sys
    /\ Live(unit)
    /\ \E skipNilValues \in BOOLEAN :
          LET called == IF skipNilValues THEN goToNonNilValue(unit, "FORWARD")
                        ELSE goForward(unit)
          IN /\ unit' = called.u
             /\ last' = SkipCalled("goForward", called.ret, skipNilValues)

NextSkip == SkipDispatch \/ SkipGoBack \/ SkipGoForward

SpecSkip == InitSkip /\ [][NextSkip]_vars

(* ---------------------------------------------------------------------- *)
(* Specification SpecStream: one Unit and the subscribers of its default   *)
(* Observable and of future$, each with the values delivered to it. A      *)
(* Subject calls its observers one after the other, in the order in which  *)
(* they subscribed, inside next; Base.emit calls sourceSubject.next and    *)
(* then futureSubject.next. One subscriber at most dispatches from its     *)
(* callback.                                                               *)
(* ---------------------------------------------------------------------- *)
\* the most subscribers a Unit has
MaxSubs == 2

\* a UnitConfig with the option replay
WithReplay(config, replays) ==
    [f \in DOMAIN config \cup {"replay"} |->
        IF f = "replay" THEN replays ELSE config[f]]

\* the Units subscribed to: NumUnits that replay and that do not
StreamConfigs ==
    { [flavor |-> "num", config |-> WithReplay(DefaultConfig, r)] : r \in BOOLEAN }

\* the callbacks that subscribe: one that only records what it is given, and one that
\* dispatches 0 when it is given another value
StreamSubscribers ==
    { [active |-> a, value |-> NumV(0), cacheReplace |-> FALSE] : a \in BOOLEAN }

\* Base.constructor: the Subject behind a stream of the Unit. With replay: false the
\* default Observable is future$ and sourceSubject is futureSubject.
subjectOf(u, stream) ==
    IF stream = "future$" \/ u.config.replay = FALSE
    THEN "futureSubject"
    ELSE "sourceSubject"

\* the subscriber at i is called before the one at k, or is the one at k, when a value
\* is emitted: Base.emit calls the observers of sourceSubject, then those of
\* futureSubject, each in the order of subscription
CalledBefore(subs, i, k) ==
    \/ i = k
    \/ subs[i].subject = subs[k].subject /\ i < k
    \/ subs[i].subject = "sourceSubject" /\ subs[k].subject = "futureSubject"

\* the position of the subscriber that dispatches from its callback, or 0
ActiveOf(subs) ==
    IF \E i \in 1..Len(subs) : subs[i].sub.active
    THEN CHOOSE i \in 1..Len(subs) : subs[i].sub.active
    ELSE 0

\* every subscriber is given the values of items, in that order
delivered(subs, items) ==
    [i \in 1..Len(subs) |-> [subs[i] EXCEPT !.got = @ \o items]]

\* a subscription that does not replay the last value (as that of future$)
subscribeWithoutReplay(u, subs, stream, sub) ==
    [u |-> u,
     subs |-> Append(subs, [stream |-> stream, subject |-> subjectOf(u, stream),
                            sub |-> sub, got |-> <<>>]),
     pushes |-> <<>>]

\* unit.subscribe(callback) and unit.future$.subscribe(callback): the subscriber joins
\* the observers of the Subject; sourceSubject, a BehaviorSubject, then calls it with
\* the value given to its last next, and a callback that dispatches does so there
subscribe(u, subs, stream, sub) ==
    LET replays == subjectOf(u, stream) = "sourceSubject"
        joined == Append(subs, [stream |-> stream, subject |-> subjectOf(u, stream),
                                sub |-> sub,
                                got |-> IF replays THEN <<u.emittedValue>> ELSE <<>>])
        nested == callback(u, sub)
    IN IF replays /\ nested.u.emitCount > u.emitCount
       THEN [u |-> nested.u,
             subs |-> delivered(joined, <<nested.u.emittedValue>>),
             pushes |-> <<nested.u.emittedValue>>]
       ELSE [u |-> IF replays THEN nested.u ELSE u, subs |-> joined, pushes |-> <<>>]

\* a call that has taken the Unit from before to called.u, with the subscribers called
\* if the call emitted: the subscriber that dispatches does so inside its callback, its
\* value is emitted to every subscriber there and then, and the subscribers called
\* after it are given the value of the outer call afterwards. pushes: the values
\* emitted, in the order of the calls of Base.emit
pushTo(subs, before, called) ==
    LET k == ActiveOf(subs)
        nested == IF k = 0 THEN [u |-> called.u, ret |-> NotCalledBack]
                  ELSE callback(called.u, subs[k].sub)
        outer == called.u.emittedValue
        inner == nested.u.emittedValue
    IN IF called.u.emitCount = before.emitCount
       THEN [u |-> called.u, ret |-> called.ret, subs |-> subs, pushes |-> <<>>]
       ELSE IF nested.u.emitCount = called.u.emitCount
       THEN [u |-> nested.u, ret |-> called.ret,
             subs |-> delivered(subs, <<outer>>), pushes |-> <<outer>>]
       ELSE [u |-> nested.u, ret |-> called.ret,
             subs |-> [i \in 1..Len(subs) |->
                          [subs[i] EXCEPT !.got = @ \o IF CalledBefore(subs, i, k)
                                                        THEN <<outer, inner>>
                                                        ELSE <<inner, outer>>]],
             pushes |-> <<outer, inner>>]

\* subs: the subscribers, in the order of subscription, each with the stream it
\* subscribed to, the Subject behind it, its callback and the values delivered to it; pushes: the values emitted
\* during the call
StreamCalled(op, ret, value, subs, pushes) ==
    [op |-> op, ret |-> ret, options |-> NoDispatchOptions, steps |-> NotANumber,
     role |-> "none", siblings |-> {}, value |-> value, reason |-> "none",
     subs |-> subs, pushes |-> pushes]

InitStream ==
    /\ \E c \in StreamConfigs : unit = NewUnit(c.flavor, c.config)
    /\ sys = NewAsyncSystem(DefaultSystemConfig, NoSystemValue)
    /\ last = StreamCalled("new", "undefined", Undefined, <<>>, <<>>)

StreamSubscribe ==
    /\ UNCHANGED sys
    /\ unit.emitCount + 1 < MaxEmit
    /\ Len(last.subs) < MaxSubs
    /\ \E stream \in {"source", "future$"}, sub \in StreamSubscribers :
          /\ sub.active => ActiveOf(last.subs) = 0
          /\ LET called == subscribe(unit, last.subs, stream, sub)
             IN /\ unit' = called.u
                /\ last' = StreamCalled("subscribe", "undefined", Undefined,
                                        called.subs, called.pushes)

StreamDispatch ==
    /\ UNCHANGED sys
    /\ unit.emitCount + 1 < MaxEmit
    /\ \E value \in DispatchInputs(unit) :
          LET called == pushTo(last.subs, unit, dispatch(unit, value, NoDispatchOptions))
          IN /\ unit' = called.u
             /\ last' = StreamCalled("dispatch", called.ret, value, called.subs,
                                     called.pushes)

StreamReplay ==
    /\ UNCHANGED sys
    /\ unit.emitCount + 1 < MaxEmit
    /\ LET called == pushTo(last.subs, unit, replay(unit))
       IN /\ unit' = called.u
          /\ last' = StreamCalled("replay", called.ret, Undefined, called.subs,
                                  called.pushes)

StreamMute ==
    /\ UNCHANGED sys
    /\ unit' = mute(unit)
    /\ last' = StreamCalled("mute", "undefined", Undefined, last.subs, <<>>)

StreamUnmute ==
    /\ UNCHANGED sys
    /\ unit.emitCount + 1 < MaxEmit
    /\ LET called == pushTo(last.subs, unit, [u |-> unmute(unit), ret |-> "undefined"])
       IN /\ unit' = called.u
          /\ last' = StreamCalled("unmute", "undefined", Undefined, called.subs,
                                  called.pushes)

NextStream ==
    StreamSubscribe \/ StreamDispatch \/ StreamReplay \/ StreamMute \/ StreamUnmute

SpecStream == InitStream /\ [][NextStream]_vars

(* ---------------------------------------------------------------------- *)
(* Specification SpecAlias: an immutable Unit and the objects its caller   *)
(* holds: the objects it has passed to dispatch and the objects value()    *)
(* has returned to it. The caller changes the content of an object it      *)
(* holds; whatever is that same object changes with it. The objects the    *)
(* caller makes carry negative identities.                                 *)
(* ---------------------------------------------------------------------- *)
\* the most objects the caller holds
MaxHeld == 3

\* an object that is neither an array nor an object literal, as `new Date(n)`
InstanceV(n, ref) == [t |-> "instance", c |-> n, id |-> ref]

\* typeof o === 'object' of a value that is not null
isReference(o) == o.t \in {"array", "dict", "instance"}

\* the immutable Units the caller shares objects with
AliasConfigs ==
    { [flavor |-> f, config |-> [DefaultConfig EXCEPT !.immutable = TRUE]] :
          f \in {"dict", "generic"} }

\* the identity of an object the caller makes: one that no object alive carries
CallerFreshId(u, held) ==
    LET taken == HeldIds(u) \cup {o.id : o \in held}
    IN CHOOSE n \in {-k : k \in 1..(Cardinality(taken) + 1)} :
          n \notin taken /\ \A m \in (n + 1)..(-1) : m \in taken

\* the object literals and instances the caller makes and dispatches
Literals(u, held) ==
    { [v EXCEPT !.id = CallerFreshId(u, held)] :
          v \in IF u.flavor = "dict" THEN {DictV(0, 0), DictV(1, 0)}
                ELSE {DictV(1, 0), InstanceV(0, 0)} }

\* what the caller holds of a value the Unit has returned: the object itself if the
\* Unit holds it too, a new object of the caller's otherwise
received(u, held, o) ==
    IF ~isReference(o) \/ o.id \in HeldIds(u) THEN o
    ELSE [o EXCEPT !.id = CallerFreshId(u, held)]

\* the value v after the content of the object with identity id was changed to c
mutatedValue(v, id, c) == IF isReference(v) /\ v.id = id THEN [v EXCEPT !.c = c] ELSE v

\* the Unit after the caller has changed the content of the object with identity id
mutated(u, id, c) ==
    [u EXCEPT !.value = mutatedValue(@, id, c),
              !.initialValue = mutatedValue(@, id, c),
              !.emittedValue = mutatedValue(@, id, c),
              !.cachedValues = [i \in DOMAIN @ |-> mutatedValue(@[i], id, c)]]

\* held: the objects the caller holds; returned: what value() returned in the call
AliasCalled(op, ret, value, held, returned) ==
    [op |-> op, ret |-> ret, options |-> NoDispatchOptions, steps |-> NotANumber,
     role |-> "none", siblings |-> {}, value |-> value, reason |-> "none",
     held |-> held, returned |-> returned]

InitAlias ==
    /\ \E c \in AliasConfigs : unit = NewUnit(c.flavor, c.config)
    /\ sys = NewAsyncSystem(DefaultSystemConfig, NoSystemValue)
    /\ last = AliasCalled("new", "undefined", Undefined, {}, Undefined)

AliasDispatch ==
    /\ UNCHANGED sys
    /\ Live(unit)
    /\ \E value \in last.held \cup
                    {v \in Literals(unit, last.held) : Cardinality(last.held) < MaxHeld} :
          LET called == dispatch(unit, value, NoDispatchOptions)
          IN /\ unit' = called.u
             /\ last' = AliasCalled("dispatch", called.ret, value,
                                    last.held \cup {value}, Undefined)

AliasGoBack ==
    /\ UNCHANGED sys
    /\ Live(unit)
    /\ unit' = goBack(unit).u
    /\ last' = AliasCalled("goBack", goBack(unit).ret, Undefined, last.held, Undefined)

ReadValue ==
    /\ UNCHANGED <<unit, sys>>
    /\ Cardinality(last.held) < MaxHeld
    /\ LET returned == received(unit, last.held, valueOf(unit))
       IN last' = AliasCalled("value", "undefined", Undefined,
                              IF isReference(returned) THEN last.held \cup {returned}
                              ELSE last.held,
                              returned)

Mutate ==
    /\ UNCHANGED sys
    /\ \E o \in last.held :
          /\ unit' = mutated(unit, o.id, 1 - o.c)
          /\ last' = AliasCalled("mutate", "undefined", o,
                                 {mutatedValue(h, o.id, 1 - o.c) : h \in last.held},
                                 Undefined)

NextAlias == AliasDispatch \/ AliasGoBack \/ ReadValue \/ Mutate

SpecAlias == InitAlias /\ [][NextAlias]_vars

(* ---------------------------------------------------------------------- *)
(* Specification SpecSys: one AsyncSystem, the dispatches made on its      *)
(* members and the pausing and resuming of its relationships               *)
(* ---------------------------------------------------------------------- *)
\* the configurations the model's AsyncSystems are constructed with
SystemConfigs ==
    {DefaultSystemConfig,
     [DefaultSystemConfig EXCEPT !.autoUpdatePendingValue = FALSE],
     [DefaultSystemConfig EXCEPT !.freezeQueryWhilePending = TRUE, !.clearQueryOnData = TRUE],
     [DefaultSystemConfig EXCEPT !.clearErrorOnQuery = TRUE, !.clearDataOnQuery = TRUE,
                                 !.clearDataOnError = TRUE],
     [DefaultSystemConfig EXCEPT !.clearErrorOnData = FALSE, !.clearDataOnError = TRUE,
                                 !.clearQueryOnError = TRUE],
     [DefaultSystemConfig EXCEPT !.autoUpdatePendingValue = FALSE,
                                 !.freezeQueryWhilePending = TRUE,
                                 !.clearQueryOnData = TRUE]}

\* the initial values the model's AsyncSystems are constructed with
SystemInitialValues ==
    {NoSystemValue, [NoSystemValue EXCEPT !.error = NumV(1), !.pending = BoolV(TRUE)]}

\* the values dispatched to a member
MemberInputs(role) ==
    IF role = "pendingUnit" THEN {BoolV(FALSE), BoolV(TRUE)} ELSE {NumV(1)}

\* the members other than `role` that have emitted between s and t
EmittedSiblings(s, t, role) ==
    {r \in Roles \ {role} : t[r].emitCount > s[r].emitCount}

SystemCalled(op, role, ret, siblings) ==
    [Called(op, ret, NoDispatchOptions, NotANumber) EXCEPT !.role = role,
                                                          !.siblings = siblings]

\* the AsyncSystem and its members still take calls that emit
SystemLive(s) ==
    /\ s.emitCount < MaxSysEmit
    /\ s.queryUnit.emitCount + s.dataUnit.emitCount
          + s.errorUnit.emitCount + s.pendingUnit.emitCount < MaxMemberEmits

InitSys ==
    /\ \E config \in SystemConfigs, initialValue \in SystemInitialValues :
          sys = NewAsyncSystem(config, initialValue)
    /\ unit = NewUnit("generic", DefaultConfig)
    /\ last = Called("new", "undefined", NoDispatchOptions, NotANumber)

MemberDispatch ==
    /\ SystemLive(sys)
    /\ UNCHANGED unit
    /\ \E role \in Roles :
          \E value \in MemberInputs(role) :
             LET called == dispatch(sys[role], value, NoDispatchOptions)
                 after == memberChanged([sys EXCEPT !.rulesRun = 0], role, called.u)
             IN /\ sys' = after
                /\ last' = SystemCalled("dispatch", role, called.ret,
                                        EmittedSiblings(sys, sys', role))

PauseRelationships ==
    /\ UNCHANGED unit
    /\ sys' = pauseRelationships([sys EXCEPT !.rulesRun = 0])
    /\ last' = SystemCalled("pauseRelationships", "none", "undefined", {})

ResumeRelationships ==
    /\ SystemLive(sys)
    /\ UNCHANGED unit
    /\ sys' = resumeRelationships([sys EXCEPT !.rulesRun = 0])
    /\ last' = SystemCalled("resumeRelationships", "none", "undefined", {})

NextSys == MemberDispatch \/ PauseRelationships \/ ResumeRelationships

SpecSys == InitSys /\ [][NextSys]_vars

(* ---------------------------------------------------------------------- *)
(* The AsyncSystem whose members are also muted and unmuted by their       *)
(* owner: the members are public Units, and mute and unmute are theirs.    *)
(* ---------------------------------------------------------------------- *)
\* the members the owner mutes, one at a time: one that has a rule set and the one
\* whose subscriber emits by itself
MutedRoles == {"dataUnit", "pendingUnit"}

InitMuted ==
    /\ sys = NewAsyncSystem(DefaultSystemConfig, NoSystemValue)
    /\ unit = NewUnit("generic", DefaultConfig)
    /\ last = Called("new", "undefined", NoDispatchOptions, NotANumber)

MemberMute ==
    /\ UNCHANGED unit
    /\ \A r \in Roles : ~sys[r].isMuted
    /\ \E role \in MutedRoles :
          /\ sys' = [sys EXCEPT !.rulesRun = 0, ![role] = mute(@)]
          /\ last' = SystemCalled("mute", role, "undefined", {})

MemberUnmute ==
    /\ SystemLive(sys)
    /\ UNCHANGED unit
    /\ \E role \in Roles :
          /\ sys[role].isMuted
          /\ LET after == memberChanged([sys EXCEPT !.rulesRun = 0], role,
                                        unmute(sys[role]))
             IN /\ sys' = after
                /\ last' = SystemCalled("unmute", role, "undefined",
                                        EmittedSiblings(sys, sys', role))

NextMuted ==
    \/ MemberDispatch
    \/ MemberMute
    \/ MemberUnmute
    \/ PauseRelationships
    \/ ResumeRelationships

SpecMuted == InitMuted /\ [][NextMuted]_vars

(* ---------------------------------------------------------------------- *)
(* Properties of one Unit (checked under Spec)                             *)
(* ---------------------------------------------------------------------- *)
NavigationOps == {"jump", "goBack", "goForward", "jumpToStart", "jumpToEnd"}

\* the calls that a frozen Unit refuses
FrozenOps == {"dispatch", "clearValue", "resetValue", "clearCache"} \cup NavigationOps

\* value, history, history index and emitCount are the same in u and v
SameContent(u, v) ==
    /\ u.value = v.value
    /\ u.cachedValues = v.cachedValues
    /\ u.cacheProps = v.cacheProps
    /\ u.cacheIndex = v.cacheIndex
    /\ u.emitCount = v.emitCount

\* the index is a whole number inside the history and the entry there is the current value
IndexPointsAtCurrent(u) ==
    /\ IsWhole(u.cacheIndex)
    /\ 0 <= u.cacheIndex
    /\ u.cacheIndex <= 2 * (cachedValuesCount(u) - 1)
    /\ ArrayGet(u, u.cacheIndex) = rawValue(u)

\* the step was an accepted dispatch, made by the call or by the debounce timer
AcceptedDispatchStep == last'.op \in {"dispatch", "later"} /\ last'.ret = "true"

\* C1 as claimed: while the Unit is frozen, every dispatch, navigation, clearValue,
\* resetValue and clearCache call returns false and leaves value, history, index and
\* emitCount unchanged.
C1_FrozenCallsReturnFalse ==
    [][(unit.isFrozen /\ last'.op \in FrozenOps)
          => (last'.ret = "false" /\ SameContent(unit, unit'))]_vars

\* C1, amended: while the Unit is frozen, every dispatch, navigation, clearValue,
\* resetValue and clearCache call leaves value, history, index and emitCount unchanged
\* and returns false; only a dispatch that goes through the debounce of a Unit
\* configured with dispatchDebounce may return undefined instead of false.
C1_FrozenCallsChangeNothing ==
    [][(unit.isFrozen /\ last'.op \in FrozenOps)
          => /\ SameContent(unit, unit')
             /\ \/ last'.ret = "false"
                \/ /\ last'.ret = "undefined"
                   /\ last'.op = "dispatch"
                   /\ unit.config.dispatchDebounce
                   /\ ~last'.options.bypassDebounce]_vars

\* C1's case: a frozen Unit has just refused a dispatch made with force
C1_Witness ==
    /\ unit.isFrozen
    /\ last.op = "dispatch"
    /\ last.options.force
    /\ last.ret = "false"
    /\ ~unit.config.dispatchDebounce

\* the operations C2 names as touching the history
C2_TouchesHistory ==
    \/ AcceptedDispatchStep
    \/ last'.op \in NavigationOps \cup {"clearValue", "resetValue", "clearCache"}
          /\ last'.ret = "true"
    \/ last'.op \in {"clear", "reset"}

AddingDispatchStep == AcceptedDispatchStep /\ ~last'.options.cacheReplace

\* C3 as claimed: the history never holds more entries than cacheSize; when it holds
\* cacheSize entries and the index is the last slot, one more accepted non-replace
\* dispatch evicts the oldest entry and the length stays cacheSize.
C3_HistoryWithinCapacity ==
    [][/\ cachedValuesCount(unit') <= unit'.cacheSize
       /\ (/\ AddingDispatchStep
           /\ cachedValuesCount(unit) = unit.cacheSize
           /\ unit.cacheIndex = 2 * (cachedValuesCount(unit) - 1))
             => /\ cachedValuesCount(unit') = unit.cacheSize
                /\ SubSeq(unit'.cachedValues, 1, unit.cacheSize - 1) = Tail(unit.cachedValues)
                /\ unit'.cachedValues[unit.cacheSize] = unit'.value]_vars

\* C5 as claimed: with the index i not the last slot, an accepted non-replace dispatch
\* of v discards every entry after i, stores v at i + 1 and makes i + 1 the index and
\* the last slot (so that goForward has nowhere to go).
C5_DispatchDiscardsForwardEntries ==
    [][(/\ AddingDispatchStep
        /\ cachedValuesCount(unit) > 0
        /\ unit.cacheIndex < 2 * (cachedValuesCount(unit) - 1))
          => /\ unit'.cacheIndex = unit.cacheIndex + 2
             /\ unit'.cacheIndex = 2 * (cachedValuesCount(unit') - 1)
             /\ ArrayGet(unit', unit'.cacheIndex) = unit'.value
             /\ \A h \in 0..unit.cacheIndex : ArrayGet(unit', h) = ArrayGet(unit, h)
             /\ goForward(unit').ret = "false"]_vars

\* C6 as claimed: a successful jump(steps) moves the index by steps, makes the entry at
\* the new index the current value, emits once, and leaves the history as it was.
C6_JumpSelectsHistoryEntry ==
    [][(last'.op \in NavigationOps /\ last'.ret = "true")
          => /\ unit'.cacheIndex = unit.cacheIndex + last'.steps.h
             /\ rawValue(unit') = ArrayGet(unit', unit'.cacheIndex)
             /\ unit'.emitCount = unit.emitCount + 1
             /\ unit'.cachedValues = unit.cachedValues
             /\ unit'.cacheProps = unit.cacheProps]_vars

\* the cases in which C7 says jump(steps) must refuse
C7_MustRefuse(u, steps) ==
    \/ u.isFrozen
    \/ ~steps.num
    \/ ~IsWhole(steps.h)
    \/ u.cacheIndex + steps.h < 0
    \/ u.cacheIndex + steps.h > 2 * (cachedValuesCount(u) - 1)
    \/ steps.h = 0

\* C7 as claimed: jump(steps) returns false and changes nothing when the Unit is
\* frozen, when steps is not a number or is fractional, or when index + steps is
\* outside the history or equal to the index.
C7_JumpRefusesBadSteps ==
    [][(last'.op = "jump" /\ C7_MustRefuse(unit, last'.steps))
          => (last'.ret = "false" /\ SameContent(unit, unit'))]_vars

\* the step was an accepted dispatch with cacheReplace
ReplacingDispatchStep == AcceptedDispatchStep /\ last'.options.cacheReplace

\* the entry at the index is the new value and nothing else in the history changed
ReplacedInPlace(u, v) ==
    /\ cachedValuesCount(v) = cachedValuesCount(u)
    /\ v.cacheIndex = u.cacheIndex
    /\ ArrayGet(v, v.cacheIndex) = v.value
    /\ \A k \in 1..cachedValuesCount(u) :
          2 * (k - 1) # u.cacheIndex => v.cachedValues[k] = u.cachedValues[k]
    /\ \A h \in DOMAIN u.cacheProps :
          h # u.cacheIndex => (h \in DOMAIN v.cacheProps /\ v.cacheProps[h] = u.cacheProps[h])

\* C8 as claimed: in every state, an accepted dispatch with cacheReplace overwrites the
\* entry at the index in place; length, index and all other entries are unchanged.
C8_ReplaceInPlaceAlways ==
    [][ReplacingDispatchStep => ReplacedInPlace(unit, unit')]_vars

\* C8, amended: when the history is not empty, an accepted dispatch with cacheReplace
\* overwrites the entry at the index in place; length, index and all other entries are
\* unchanged. (On an empty history the value becomes the first entry.)
C8_ReplaceInPlace ==
    [][(ReplacingDispatchStep /\ cachedValuesCount(unit) > 0)
          => ReplacedInPlace(unit, unit')]_vars

\* C8's case: a dispatch with cacheReplace was accepted while a later entry exists
C8_Witness ==
    /\ last.op = "dispatch"
    /\ last.ret = "true"
    /\ last.options.cacheReplace
    /\ cachedValuesCount(unit) >= 2
    /\ unit.cacheIndex = 0
    /\ unit.cachedValues[1] = unit.value
    /\ unit.cachedValues[2] # unit.value

TypedFlavors == Flavors \ {"generic"}

\* C4: on every typed Unit the current value and every history entry pass the Unit's
\* isValidValue, whatever was dispatched (with force or not), navigated to, cleared,
\* reset, or configured as initial value.
C4_ValuesAlwaysValid ==
    unit.flavor \in TypedFlavors
        => /\ isValidValue(unit.flavor, rawValue(unit))
           /\ \A k \in DOMAIN unit.cachedValues : isValidValue(unit.flavor, unit.cachedValues[k])
           /\ \A h \in DOMAIN unit.cacheProps : isValidValue(unit.flavor, unit.cacheProps[h])

\* C4's case: an unfrozen typed Unit has just refused a dispatch made with force, which
\* only the type check can do
C4_Witness ==
    /\ unit.flavor \in TypedFlavors
    /\ ~unit.isFrozen
    /\ last.op = "dispatch"
    /\ last.options.force
    /\ last.ret = "false"
    /\ cachedValuesCount(unit) >= 2

(* ---------------------------------------------------------------------- *)
(* Properties of the AsyncSystem (checked under SpecSys, in which the      *)
(* members are only dispatched to: nobody mutes or freezes them from       *)
(* outside the system)                                                     *)
(* ---------------------------------------------------------------------- *)
\* the step was an accepted dispatch to a member
AcceptedMemberDispatchStep ==
    last'.op = "dispatch" /\ last'.role \in Roles /\ last'.ret = "true"

RuleSetStep ==
    /\ last'.op = "dispatch"
    /\ last'.role \in {"queryUnit", "dataUnit", "errorUnit"}
    /\ sys'.emitCount > sys.emitCount

\* C10 as claimed: when a member fires, the rule set runs with autoPaused set, the
\* combined value is emitted while autoPaused is still set, and autoPaused is cleared
\* only after that emission.
C10_EmitsWhileAutoPaused ==
    [][RuleSetStep => (sys'.autoPausedAtEmit /\ ~sys'.relationshipsAutoPaused)]_vars

\* C10, amended: when a member fires, the rule set runs with autoPaused set (every
\* sibling it writes emits while autoPaused is set), autoPaused is then cleared, and
\* the combined value is emitted after that: autoPaused is not set during the
\* emission nor after it.
C10_ClearsAutoPausedThenEmits ==
    [][RuleSetStep
          => /\ ~sys'.autoPausedAtEmit
             /\ ~sys'.relationshipsAutoPaused
             /\ (last'.siblings # {} => sys'.autoPausedAtMemberEmit)]_vars

\* C10's case: the rule set of the data member has run and written a sibling
C10_Witness ==
    /\ last.op = "dispatch"
    /\ last.role = "dataUnit"
    /\ last.ret = "true"
    /\ last.siblings # {}
    /\ sys.autoPausedAtMemberEmit
    /\ ~sys.autoPausedAtEmit
    /\ sys.emitCount >= 2

\* the step was a dispatch to a member, accepted or not
MemberDispatchStep == last'.op = "dispatch" /\ last'.role \in Roles

\* C11: one dispatch to a member runs at most one rule set (the writes the rule set
\* makes to siblings run none) and makes every member emit at most once, so at most
\* four member emissions and one system emission come of it.
C11_OneRuleSetPerDispatch ==
    [][MemberDispatchStep
          => /\ sys'.rulesRun <= 1
             /\ \A r \in Roles : sys'[r].emitCount <= sys[r].emitCount + 1
             /\ sys'.emitCount <= sys.emitCount + 1
             /\ ~sys'.relationshipsAutoPaused]_vars

\* C11's case: a dispatch to query ran its rule set, which wrote all three siblings
C11_Witness ==
    /\ last.op = "dispatch"
    /\ last.role = "queryUnit"
    /\ last.ret = "true"
    /\ last.siblings = {"dataUnit", "errorUnit", "pendingUnit"}
    /\ sys.rulesRun = 1

\* no member of the system is muted
NoMemberMuted == \A r \in Roles : ~sys[r].isMuted

\* C12 as stated: whenever a call has completed and relationships are not manually
\* paused, the combined value the system emitted last equals, role by role, the
\* current values of its four members.
C12_CombinedValueInSync ==
    ~sys.relationshipsManuallyPaused => sys.emittedValue = systemValue(sys)

\* C12: whenever a call has completed, relationships are not manually paused and no
\* member is muted, the combined value the system emitted last equals, role by
\* role, the current values of its four members.
C12_CombinedValueInSyncUnmuted ==
    (~sys.relationshipsManuallyPaused /\ NoMemberMuted)
        => sys.emittedValue = systemValue(sys)

\* C12's case: a data dispatch whose rule set cleared error and reset pending
\* before the combined value went out
C12_Witness ==
    /\ last.op = "dispatch"
    /\ last.role = "dataUnit"
    /\ last.ret = "true"
    /\ last.siblings = {"errorUnit", "pendingUnit"}
    /\ ~sys.relationshipsManuallyPaused
    /\ NoMemberMuted
    /\ sys.emittedValue = systemValue(sys)
    /\ sys.emittedValue.data = NumV(1)
    /\ sys.emittedValue.error = Undefined

\* the step was a dispatch to a member that made the member emit while the
\* relationships were working
WorkingMemberEmissionStep ==
    /\ MemberDispatchStep
    /\ relationshipsWorking(sys)
    /\ sys'[last'.role].emitCount > sys[last'.role].emitCount

PendingEmissionStep ==
    /\ MemberDispatchStep
    /\ sys'.pendingUnit.emitCount > sys.pendingUnit.emitCount

\* after the step the query member is frozen exactly if pending emitted true
QueryFrozenAsPending ==
    sys'.queryUnit.isFrozen = (sys'.pendingUnit.emittedValue = BoolV(TRUE))

\* C14 as stated: with freezeQueryWhilePending set, after every emission of the
\* pending member the query member is frozen exactly if the emitted value is true.
C14_QueryFrozenAsPendingAlways ==
    [][(PendingEmissionStep /\ sys.config.freezeQueryWhilePending)
          => QueryFrozenAsPending]_vars

\* C14: with freezeQueryWhilePending set and relationships not manually paused,
\* after every emission of the pending member the query member is frozen exactly
\* if the emitted value is true.
C14_QueryFrozenAsPending ==
    [][(/\ PendingEmissionStep
        /\ sys.config.freezeQueryWhilePending
        /\ ~sys.relationshipsManuallyPaused)
          => QueryFrozenAsPending]_vars

\* C14's case: pending was dispatched true and the query member is frozen for it
C14_Witness ==
    /\ last.op = "dispatch"
    /\ last.role = "pendingUnit"
    /\ last.ret = "true"
    /\ sys.config.freezeQueryWhilePending
    /\ ~sys.relationshipsManuallyPaused
    /\ sys.pendingUnit.emittedValue = BoolV(TRUE)
    /\ sys.queryUnit.isFrozen

\* C15: while relationships are manually paused, a dispatch to a member leaves
\* every sibling as it was (no value written, no freeze or unfreeze), runs no rule
\* set and makes the system emit nothing.
C15_PausedDispatchHasNoSideEffect ==
    [][(MemberDispatchStep /\ sys.relationshipsManuallyPaused)
          => /\ \A r \in Roles \ {last'.role} : sys'[r] = sys[r]
             /\ sys'.rulesRun = 0
             /\ sys'.emitCount = sys.emitCount
             /\ sys'.emittedValue = sys.emittedValue
             /\ sys'.relationshipsManuallyPaused]_vars

\* C15's case: during a manual pause data emitted a value and the error that the
\* data rule set would have cleared is still there
C15_Witness ==
    /\ last.op = "dispatch"
    /\ last.role = "dataUnit"
    /\ last.ret = "true"
    /\ last.siblings = {}
    /\ sys.relationshipsManuallyPaused
    /\ sys.config.clearErrorOnData
    /\ ~sys.config.clearErrorOnQuery
    /\ valueOf(sys.dataUnit) = NumV(1)
    /\ valueOf(sys.errorUnit) = NumV(1)
    /\ valueOf(sys.pendingUnit) = BoolV(TRUE)

\* C16: resumeRelationships emits the combined value exactly once if a member has
\* emitted since the first pauseRelationships of the paused period and nothing
\* otherwise; pauseRelationships while already paused changes nothing, the
\* snapshot of the emit counts included.
C16_ResumeEmitsOnceIfMemberEmitted ==
    [][/\ last'.op = "resumeRelationships"
          => /\ ~sys'.relationshipsManuallyPaused
             /\ sys'.emitCount =
                   IF sys.relationshipsManuallyPaused /\ sys.emittedWhilePaused
                   THEN sys.emitCount + 1 ELSE sys.emitCount
             /\ \A r \in Roles : sys'[r] = sys[r]
       /\ (last'.op = "pauseRelationships" /\ sys.relationshipsManuallyPaused)
          => sys' = [sys EXCEPT !.rulesRun = 0]]_vars

\* C16's case: paused, one dispatch to data, paused again, resumed: the second
\* emission of the system is the one resumeRelationships made
C16_Witness ==
    /\ last.op = "resumeRelationships"
    /\ sys.config = DefaultSystemConfig
    /\ ~sys.relationshipsManuallyPaused
    /\ sys.emitCount = 2
    /\ sys.dataUnit.emitCount = sys.pendingUnit.emitCount + 1
    /\ sys.emittedValue.data = NumV(1)

\* C17: with clearErrorOnQuery set a dispatch to data leaves the error member as it
\* was, whatever clearErrorOnData is, and with clearDataOnQuery set a dispatch to
\* error leaves the data member as it was, whatever clearDataOnError is.
C17_OnQueryOptionsDisableCounterparts ==
    [][MemberDispatchStep
          => /\ (sys.config.clearErrorOnQuery /\ last'.role = "dataUnit")
                   => sys'.errorUnit = sys.errorUnit
             /\ (sys.config.clearDataOnQuery /\ last'.role = "errorUnit")
                   => sys'.dataUnit = sys.dataUnit]_vars

\* C17's case: clearErrorOnQuery and clearErrorOnData are both set, the data rule
\* set has run, and the error that was there is still there
C17_Witness ==
    /\ last.op = "dispatch"
    /\ last.role = "dataUnit"
    /\ last.ret = "true"
    /\ sys.rulesRun = 1
    /\ sys.config.clearErrorOnQuery
    /\ sys.config.clearErrorOnData
    /\ valueOf(sys.errorUnit) = NumV(1)
    /\ sys.emittedValue.error = NumV(1)
    /\ sys.emittedValue.data = NumV(1)

\* the step was a dispatch that made the data member emit while the relationships
\* were working, in a system configured with clearQueryOnData
DataEmissionClearsQueryStep ==
    /\ WorkingMemberEmissionStep
    /\ last'.role = "dataUnit"
    /\ sys.config.clearQueryOnData

FailsCustomCheck(u, value) ==
    /\ u.config.customDispatchCheck # "none"
    /\ ~customDispatchCheck(u.config.customDispatchCheck, rawValue(u), value)

\* the first reason that applies in the order FROZEN_UNIT, INVALID_VALUE,
\* CUSTOM_DISPATCH_CHECK, DISTINCT_CHECK
FirstReasonThatApplies(u, value) ==
    IF u.isFrozen THEN "FROZEN_UNIT"
    ELSE IF ~isValidValue(u.flavor, value) THEN "INVALID_VALUE"
    ELSE IF FailsCustomCheck(u, value) THEN "CUSTOM_DISPATCH_CHECK"
    ELSE "DISTINCT_CHECK"

\* the step was a dispatch that the Unit refused
RefusedDispatchStep == last'.op = "dispatch" /\ last'.ret = "false"

\* C19: a refused dispatch is notified with the first reason that applies in the
\* order FROZEN_UNIT, INVALID_VALUE, CUSTOM_DISPATCH_CHECK, DISTINCT_CHECK.
C19_FailReasonInPriorityOrder ==
    [][RefusedDispatchStep
          => last'.reason = FirstReasonThatApplies(unit, last'.value)]_vars

\* the step was a dispatch, to an unfrozen Unit configured with
\* distinctDispatchCheck, of a value strictly equal to the Unit's current value
SameAsCurrentStep ==
    /\ last'.op = "dispatch"
    /\ ~unit.isFrozen
    /\ unit.config.distinctDispatchCheck
    /\ StrictEq(last'.value, rawValue(unit))

C21_InitialValueAdmittedLikeDispatch ==
    last.op = "new"
        => LET blank == BlankUnit(unit.flavor, unit.config)
               initialValue == unit.config.initialValue
           IN IF wouldDispatch(blank, initialValue, FALSE)
              THEN rawValue(unit) = initialValue /\ unit.initialValue = initialValue
              ELSE rawValue(unit) = defaultValue(blank) /\ unit.initialValue = Undefined

(* ---------------------------------------------------------------------- *)
(* Properties of the debounced dispatch (checked under Spec)               *)
(* ---------------------------------------------------------------------- *)
\* the step was a call of dispatch, without bypassDebounce, on a Unit that debounces
DebouncedDispatchStep ==
    /\ last'.op = "dispatch"
    /\ unit.config.dispatchDebounce
    /\ ~last'.options.bypassDebounce

C23_EndModeEvaluatesLastOnly ==
    [][callMode(unit) = "END"
          => /\ last'.op = "dispatch"
                   => /\ last'.ret = "undefined"
                      /\ last'.burst.evaluations = 0
                      /\ [unit' EXCEPT !.timeout = unit.timeout] = unit
                      /\ unit'.timeout.set
             /\ last'.op = "later"
                   => LET evaluated ==
                             dispatchActual([unit EXCEPT !.timeout = NoTimeout],
                                            last.burst.latest,
                                            [NoDispatchOptions EXCEPT
                                                !.force = last.burst.force])
                      IN /\ unit' = evaluated.u
                         /\ last'.ret = evaluated.ret
                         /\ last'.burst.evaluations = 1
                         /\ ~unit'.timeout.set]_vars

\* C23's case: a burst of three proposals in mode END has ended and the third one,
\* alone, was evaluated and accepted
C23_Witness ==
    /\ last.op = "later"
    /\ last.ret = "true"
    /\ callMode(unit) = "END"
    /\ ~last.burst.open
    /\ last.burst.proposals = MaxBurst
    /\ last.burst.evaluations = 1
    /\ rawValue(unit) = last.burst.latest
    /\ unit.emitCount = 2

\* C24: in mode BOTH the proposal that opens a window is evaluated at once, every
\* later proposal of the window is left unevaluated when it is made, the timer
\* evaluates the latest proposal when the window elapses, and no proposal is
\* evaluated more than once: a window of a single proposal has one evaluation.
C24_BothModeEvaluatesEachOnce ==
    [][callMode(unit) = "BOTH"
          => /\ last'.op = "dispatch"
                   => IF last.burst.open
                      THEN /\ last'.ret = "undefined"
                           /\ last'.burst.evaluations = 0
                           /\ [unit' EXCEPT !.timeout = unit.timeout] = unit
                      ELSE /\ last'.ret \in {"true", "false"}
                           /\ last'.burst.evaluations = 1
             /\ last'.op = "later" => last'.burst.evaluations = 1]_vars

\* C25: a proposal that an evaluation has refused is not evaluated again later,
\* whatever has happened to the Unit since: when the timer fires for it, nothing
\* is evaluated and the Unit keeps its value, cache and emit count.
C25_RefusedProposalIsTerminal ==
    [][(last'.op = "later" /\ last.burst.refused)
          => /\ last'.ret = "undefined"
             /\ [unit' EXCEPT !.timeout = unit.timeout] = unit]_vars

(* ---------------------------------------------------------------------- *)
(* Properties of muting and freezing (checked under SpecGate)              *)
(* ---------------------------------------------------------------------- *)
\* the step is a call, made on a muted Unit, that changes the value: an admitted
\* dispatch, jump, clearValue or resetValue
MutedChangeStep ==
    /\ unit.isMuted
    /\ last'.op \in {"dispatch", "jump", "clearValue", "resetValue"}
    /\ last'.ret = "true"

\* what the call recorded in call makes of the Unit u
Recalled(u, call) ==
    CASE call.op = "dispatch" -> dispatch(u, call.value, call.options).u
      [] call.op = "jump" -> jump(u, call.steps).u
      [] call.op = "clearValue" -> clearValue(u).u
      [] call.op = "resetValue" -> resetValue(u).u

\* the value and the cache of a Unit
Stored(u) == [value |-> u.value, cachedValues |-> u.cachedValues,
              cacheIndex |-> u.cacheIndex]

\* C26: a call that changes the value of a muted Unit stores the value and updates the
\* cache as the same call does on the Unit when it is not muted, and pushes nothing:
\* emitCount and the value last emitted stay and no event is sent to events$.
C26_MutedChangeStoresWithoutPush ==
    [][MutedChangeStep
          => /\ Stored(unit') = Stored(Recalled([unit EXCEPT !.isMuted = FALSE], last'))
             /\ unit'.emitCount = unit.emitCount
             /\ unit'.emittedValue = unit.emittedValue
             /\ last'.events = <<>>
             /\ unit'.emitOnUnmute]_vars

\* a muted Unit has taken a dispatch and a jump back, both admitted, without emitting
C26_Witness ==
    /\ unit.isMuted
    /\ last.op = "jump" /\ last.ret = "true" /\ last.admitted
    /\ cachedValuesCount(unit) = 2
    /\ unit.emitOnUnmute

\* C27: unmute() on a muted Unit emits the current value, once, if a call has changed
\* the value since the Unit was muted, and emits nothing if none has; either way the
\* Unit is no longer muted and emitOnUnmute is clear, so that a mute() and an unmute()
\* with no change of value between them emit nothing.
C27_UnmuteEmitsOnceIfChanged ==
    [][(last'.op = "unmute" /\ unit.isMuted)
          => /\ ~unit'.isMuted /\ ~unit'.emitOnUnmute
             /\ IF last.admitted
                THEN /\ unit'.emitCount = unit.emitCount + 1
                     /\ unit'.emittedValue = valueOf(unit)
                ELSE /\ unit'.emitCount = unit.emitCount
                     /\ unit'.emittedValue = unit.emittedValue
             /\ Stored(unit') = Stored(unit)]_vars

\* a Unit was muted, took the dispatches of 1 and of 0 and was unmuted: it has emitted
\* once since the emission of its construction, the second of the two values
C27_Witness ==
    /\ last.op = "unmute" /\ last.events = <<"EventUnitUnmute">>
    /\ unit.config.initialValue = Undefined
    /\ unit.cachedValues = <<NumV(1), NumV(0)>>
    /\ unit.emittedValue = NumV(0)
    /\ unit.emitCount = 2

\* C28: a frozen Unit emits nothing: whatever is called on it other than unfreeze(),
\* clear() and reset(), unmute() included, its emitCount stays as it is.
C28_NoEmissionWhileFrozen ==
    [][(unit.isFrozen /\ last'.op \notin {"unfreeze", "clear", "reset"})
          => unit'.emitCount = unit.emitCount]_vars

(* ---------------------------------------------------------------------- *)
(* Properties of the re-entrant dispatch (checked under SpecReentrant)     *)
(* ---------------------------------------------------------------------- *)
\* the step is an admitted dispatch during which the subscriber's callback dispatched a
\* value of its own, which was admitted as well
ReentrantDispatchStep ==
    /\ last'.op = "dispatch" /\ last'.ret = "true"
    /\ last'.inner = "true"

\* the value and the cache are the subscriber's value: it is the current value and the
\* entry of the cache at cacheIndex
SubscribersValueStored ==
    /\ rawValue(unit') = last'.sub.value
    /\ ArrayGet(unit', unit'.cacheIndex) = last'.sub.value
    /\ unit'.cacheIndex = 2 * (cachedValuesCount(unit') - 1)

\* the callback's dispatch was admitted, emitted and sent its event inside the outer
\* call: two emissions, the subscriber's value the last emitted, and its
\* EventUnitDispatch before the one of the outer dispatch
PushedInsideOuterCall ==
    /\ unit'.emitCount = unit.emitCount + 2
    /\ unit'.emittedValue = last'.sub.value
    /\ last'.events = <<"EventUnitDispatch", "EventUnitDispatch">>

\* the value the outer call dispatched is the cache's entry before the one at cacheIndex
OuterValueJustBefore ==
    /\ unit'.cacheIndex >= 2
    /\ ArrayGet(unit', unit'.cacheIndex - 2) = last'.value

\* C29 as stated: after an admitted dispatch whose push made the subscriber dispatch a
\* value that was admitted, the subscriber's value is the current value and the cache's
\* entry at cacheIndex, it was pushed inside the outer call, and the outer call's value
\* is the entry just before it.
C29_ReentrantDispatchNests ==
    [][ReentrantDispatchStep
          => SubscribersValueStored /\ PushedInsideOuterCall /\ OuterValueJustBefore]_vars

\* C29, amended: the same, the outer value being the entry just before provided that
\* the cache has room for more than one value and the subscriber did not dispatch with
\* cacheReplace (otherwise the subscriber's value takes the place of the outer one).
C29_ReentrantDispatchNestsWithRoom ==
    [][ReentrantDispatchStep
          => /\ SubscribersValueStored /\ PushedInsideOuterCall
             /\ (unit.cacheSize > 1 /\ ~last'.sub.cacheReplace)
                   => OuterValueJustBefore]_vars

\* a Unit with room for three values holds 0, 1, 0: the subscriber answered the
\* dispatch of 1 with a dispatch of 0
C29_Witness ==
    /\ last.op = "dispatch" /\ last.ret = "true" /\ last.inner = "true"
    /\ last.value = NumV(1) /\ last.sub.value = NumV(0) /\ ~last.sub.cacheReplace
    /\ unit.cachedValues = <<NumV(0), NumV(1), NumV(0)>>
    /\ unit.value = NumV(0)
    /\ unit.emitCount = 3

(* ---------------------------------------------------------------------- *)
(* Properties of clearCache (checked under Spec)                           *)
(* ---------------------------------------------------------------------- *)
\* the ends of the cache of u that the options preserve
PreservedEnds(u, options) ==
    (IF options.leaveFirst /\ cachedValuesCount(u) > 0
     THEN <<u.cachedValues[1]>> ELSE <<>>)
    \o (IF options.leaveLast /\ cachedValuesCount(u) > 0
        THEN <<u.cachedValues[cachedValuesCount(u)]>> ELSE <<>>)

\* C30: whatever the options, clearCache on the Unit returns false and changes nothing
\* if the Unit is frozen, the cache is empty or the preserved ends cover the whole
\* cache; otherwise it returns true, leaves in the cache the preserved ends only, sets
\* cacheIndex to the last of them (0 if none is left) and changes nothing else: not
\* the value, not emitCount, not the value last emitted.
C30_ClearCacheFrame ==
    \A options \in ClearCacheOptions :
        LET called == clearCache(unit, options)
            kept == PreservedEnds(unit, options)
        IN IF unit.isFrozen \/ cachedValuesCount(unit) = 0
                 \/ Len(kept) >= cachedValuesCount(unit)
           THEN called.ret = "false" /\ called.u = unit
           ELSE /\ called.ret = "true"
                /\ called.u.cachedValues = kept
                /\ called.u.cacheIndex = 2 * Max(0, Len(kept) - 1)
                /\ called.u = [unit EXCEPT !.cachedValues = called.u.cachedValues,
                                           !.cacheIndex = called.u.cacheIndex]

\* clearCache has left the first and the last of at least three cached values, and the
\* value and the emissions are those of before
C30_Witness ==
    /\ last.op = "clearCache" /\ last.ret = "true"
    /\ cachedValuesCount(unit) = 2
    /\ unit.cacheIndex = 2
    /\ unit.emitCount >= 3
    /\ unit.cacheSize >= 3

(* ---------------------------------------------------------------------- *)
(* Properties of reset (checked under Spec)                                *)
(* ---------------------------------------------------------------------- *)
\* two values are the same primitive, or objects of the same content
SameValue(a, b) == a.t = b.t /\ a.c = b.c

\* the last of the cached values of u, as a cache of its own
LastCached(u) ==
    IF cachedValuesCount(u) = 0 THEN <<>>
    ELSE <<u.cachedValues[cachedValuesCount(u)]>>

C32_PersistenceRoundTrip ==
    [][(last.op = "dispatch" /\ last.ret = "true" /\ last'.op = "new")
          => SameValue(rawValue(unit'), last.value)]_vars

\* the value changes by a dispatch, a jump, a clearValue or a resetValue that succeeds
ValueChangeStep ==
    /\ last'.op \in {"dispatch", "jump", "clearValue", "resetValue"}
    /\ last'.ret = "true"

\* C40: after every call that changes the value of a persistent Unit, muted or not,
\* the item in the storage holds the current value, and a Unit constructed later with
\* the same id, if clearPersistedValue was not called since the value last changed, has
\* as its value the value the old Unit had at that time.
C40_StorageFollowsValue ==
    [][/\ ValueChangeStep
          => /\ last'.item.set
             /\ SameValue(parse(unit', last'.item.text), rawValue(unit'))
       /\ (last'.op = "new" /\ ~last.cleared)
          => SameValue(rawValue(unit'), rawValue(unit))]_vars

(* ---------------------------------------------------------------------- *)
(* Properties of emitCount (checked under SpecGate)                        *)
(* ---------------------------------------------------------------------- *)
\* the events of the step that tell of a value stored and pushed by clearValue or by
\* resetValue, alone or inside clear and reset
ValuePushEvents ==
    SelectSeq(last'.events,
              LAMBDA e : e \in {"EventUnitClearValue", "EventUnitResetValue"})

\* the pushes the step makes to the subscribers: one for a dispatch or a jump that
\* returns true on a Unit that is not muted, for each clearValue and resetValue that
\* stored a value on a Unit that is not muted, for a replay that returns true, and for
\* an unmute after a change of value was admitted while the Unit was muted
PushesOfStep ==
    CASE last'.op \in {"dispatch", "jump"} ->
            IF last'.ret = "true" /\ ~unit.isMuted THEN 1 ELSE 0
      [] last'.op \in {"clearValue", "resetValue", "clear", "reset"} ->
            Len(ValuePushEvents)
      [] last'.op = "replay" -> IF last'.ret = "true" THEN 1 ELSE 0
      [] last'.op = "unmute" -> IF unit.isMuted /\ last.admitted THEN 1 ELSE 0
      [] OTHER -> 0

\* C36: emitCount never decreases; every call raises it by exactly one for each push it
\* makes to the subscribers (an admitted dispatch on a Unit that is not muted, a
\* successful jump, clearValue, resetValue, replay, the emission of unmute), and a call
\* that is refused or does nothing leaves it unchanged.
C36_EmitCountCountsPushes ==
    [][/\ unit'.emitCount >= unit.emitCount
       /\ unit'.emitCount = unit.emitCount + PushesOfStep]_vars

\* an unmute has pushed the value dispatched while the Unit was muted: the third
\* emission, after the one of the construction and the one of an earlier dispatch
C36_Witness ==
    /\ last.op = "unmute"
    /\ ~unit.isMuted
    /\ unit.emitCount = 3
    /\ unit.emittedValue = unit.value
    /\ Len(unit.cachedValues) = 2

(* ---------------------------------------------------------------------- *)
(* Properties of the path of a Selection (checked under SpecPath)          *)
(* ---------------------------------------------------------------------- *)
\* a segment that is a name or a whole number that is not negative
NameOrIndex(key) == key.t = "string" \/ (key.t = "number" /\ key.h >= 0 /\ key.h % 2 = 0)

\* a segment that is a string or a number of any kind
StringOrNumber(key) == typeOf(key) \in {"string", "number"}

\* C34 as stated: the construction of a Selection throws unless the path is not empty
\* and every segment of it is a string or a non-negative integer; a negative or
\* fractional number is refused.
C34_PathOfNamesAndIndices ==
    (last.op = "select"
       /\ ~(Len(last.path) > 0 /\ \A i \in 1..Len(last.path) : NameOrIndex(last.path[i])))
    => last.thrown # NoError

\* C34, amended: the construction of a Selection on a ListUnit, DictUnit or GenericUnit
\* throws exactly when the path is empty or has a segment that is neither a string nor
\* a number; negative and fractional numbers and NaN are accepted.
C34_PathOfStringsAndNumbers ==
    (last.op = "select" /\ isNonPrimitiveUnit(unit))
    => (last.thrown # NoError
          <=> ~(Len(last.path) > 0
                  /\ \A i \in 1..Len(last.path) : StringOrNumber(last.path[i])))

\* a Selection was constructed on a DictUnit with the path ["a", -1]
C34_Witness ==
    /\ last.op = "select" /\ unit.flavor = "dict"
    /\ last.path = <<KeyA, NumberKey(-2)>>
    /\ last.thrown = NoError

(* ---------------------------------------------------------------------- *)
(* Properties of the observable of a Selection (checked under SpecSelect)  *)
(* ---------------------------------------------------------------------- *)
\* the step is an admitted dispatch, on an immutable Unit with a subscribed Selection
\* of the path ["a"], of a dictionary that differs from the current one in b only
OnlyBChangesStep ==
    /\ last'.op = "dispatch" /\ last'.ret = "true"
    /\ unit.config.immutable
    /\ last.selection.made /\ last.selection.path = <<KeyA>>
    /\ hasObjectAtA(last'.value) = hasObjectAtA(rawValue(unit))
    /\ aOf(last'.value) = aOf(rawValue(unit))
    /\ bOf(last'.value) # bOf(rawValue(unit))

EarlierNonNil(u) ==
    {j \in 0..(Len(u.cachedValues) - 1) : 2 * j < u.cacheIndex /\ notNil(u.cachedValues[j + 1])}

\* C39: goBack(true) never moves forward: it moves cacheIndex to the nearest earlier
\* position that holds a value that is not nil, or returns false and changes nothing
\* when there is none (as when cacheIndex is 0); goForward(true) never moves backward.
C39_SkipNilKeepsDirection ==
    [][/\ (last'.op = "goBack" /\ last'.skipNilValues)
            => /\ unit'.cacheIndex <= unit.cacheIndex
               /\ IF EarlierNonNil(unit) = {}
                  THEN last'.ret = "false" /\ unit' = unit
                  ELSE /\ last'.ret = "true"
                       /\ unit'.cacheIndex \div 2 \in EarlierNonNil(unit)
                       /\ \A j \in EarlierNonNil(unit) : 2 * j <= unit'.cacheIndex
       /\ (last'.op = "goForward" /\ last'.skipNilValues)
            => unit'.cacheIndex >= unit.cacheIndex]_vars

(* ---------------------------------------------------------------------- *)
(* Properties of the streams of a Unit (checked under SpecStream)          *)
(* ---------------------------------------------------------------------- *)
\* the subscriber that joined in the step
NewSubscriber == last'.subs[Len(last'.subs)]

\* the values delivered in the step to the subscriber at i, who had subscribed before
DeliveredInStep(i) ==
    SubSeq(last'.subs[i].got, Len(last.subs[i].got) + 1, Len(last'.subs[i].got))

\* items in the same or in the opposite order (at most two values are emitted in a step)
Reversed(items) == [i \in 1..Len(items) |-> items[Len(items) + 1 - i]]

\* C35: a subscriber to the default stream of a Unit that replays is given the last
\* emitted value at once when it subscribes, and every value emitted afterwards; a
\* subscriber to future$, or to the default stream of a Unit with replay: false, is
\* given nothing when it subscribes and every value emitted afterwards.
C35_ReplayAndFutureStreams ==
    [][/\ Len(last'.pushes) = unit'.emitCount - unit.emitCount
       /\ \A i \in 1..Len(last.subs) :
             /\ last'.subs[i].stream = last.subs[i].stream
             /\ SubSeq(last'.subs[i].got, 1, Len(last.subs[i].got)) = last.subs[i].got
             /\ DeliveredInStep(i) \in {last'.pushes, Reversed(last'.pushes)}
       /\ last'.op = "subscribe"
             => /\ Len(last'.subs) = Len(last.subs) + 1
                /\ IF NewSubscriber.stream = "source" /\ unit.config.replay
                   THEN NewSubscriber.got = <<unit.emittedValue>> \o last'.pushes
                   ELSE NewSubscriber.got = <<>> /\ last'.pushes = <<>>
       /\ last'.op # "subscribe" => Len(last'.subs) = Len(last.subs)]_vars

\* a Unit that replays has emitted 0 and then 1: the subscriber to its default stream,
\* who subscribed after the 0, was given 0 and 1, the subscriber to future$ only 1
C35_Witness ==
    /\ unit.config.replay
    /\ last.op = "dispatch" /\ last.ret = "true"
    /\ Len(last.subs) = 2
    /\ last.subs[1].stream = "source" /\ last.subs[1].got = <<NumV(0), NumV(1)>>
    /\ last.subs[2].stream = "future$" /\ last.subs[2].got = <<NumV(1)>>
    /\ unit.emitCount = 2

\* C38: when a dispatch made from outside has returned true on a Unit that is not
\* muted, the value delivered last to every subscriber is the current value of the
\* Unit, also when a subscriber has dispatched from its callback during the call.
C38_NoSubscriberLeftStale ==
    [][(last'.op = "dispatch" /\ last'.ret = "true" /\ ~unit.isMuted)
          => \A i \in 1..Len(last'.subs) :
                /\ last'.subs[i].got # <<>>
                /\ StrictEq(last'.subs[i].got[Len(last'.subs[i].got)],
                            rawValue(unit'))]_vars

(* ---------------------------------------------------------------------- *)
(* Properties of an immutable Unit's values (checked under SpecAlias)      *)
(* ---------------------------------------------------------------------- *)
\* C37: the current value and the cache of an immutable Unit are never the objects its
\* caller holds: when the caller changes an object it has passed to dispatch or has
\* been returned by value(), the value and the cache stay as they were; and value()
\* returns an object that is none of those it returned before.
C37_StoredValuesNotShared ==
    [][unit.config.immutable
          => /\ last'.op = "mutate"
                   => /\ unit'.value = unit.value
                      /\ unit'.cachedValues = unit.cachedValues
             /\ (last'.op = "value" /\ isReference(last'.returned))
                   => last'.returned.id \notin {o.id : o \in last.held}]_vars

====
